---------------------------- MODULE Spec2Model ----------------------------
(***************************************************************************)
(* A model of easyeda2kicad: the geometry kernel and shape fitter of the   *)
(* footprint exporter (kicad/export_kicad_footprint.py), the symbol        *)
(* library text routines (api/server.py, __main__.py) and the conversion   *)
(* task worker of the API server (api/server.py).                          *)
(*                                                                         *)
(* Pure functions are operators.  A call of one is a two-state run: the    *)
(* arguments are drawn in the initial state (pc = "call"), the action      *)
(* that models the function stores its result in ret (pc = "return").      *)
(*                                                                         *)
(* Numbers.  Lengths of the geometry kernel are integers in a fixed unit   *)
(* (stated per function); a Python value that may be "", None or NaN is a  *)
(* record [t, v] with t in {"num", "blank", "None", "nan"}.                *)
(***************************************************************************)
EXTENDS Integers, Sequences, FiniteSets, TLC

VARIABLES
    pc,            \* "call" / "return" for a function call, "server" for the API server
    call,          \* the arguments of the function call
    ret,           \* the value the call returned
    worker_task,   \* app.state.worker_task: <<>> (None) or <<w>>, w a worker task
    workers,       \* the asyncio tasks created for worker(): w -> where the task is
    stops,         \* the tasks awaited by the suspended stop_worker() calls
    tasks,         \* app.state.tasks: the registered task ids
    pending,       \* app.state.pending: deque of task ids
    queue,         \* app.state.queue: the records put and not yet got
    unfinished,    \* app.state.queue._unfinished_tasks
    http,          \* the outcome of the last enqueue_task request
    records,       \* app.state.tasks: the TaskRecord of each registered id
    joins,         \* the stop_worker() calls suspended in queue.join()
    threads,       \* the runs of the conversion runner, by the worker that started them
    ready          \* the calls worker threads have posted to the event loop, in order

taskVars == <<records, joins, threads, ready>>
vars == <<pc, call, ret, worker_task, workers, stops, tasks, pending, queue, unfinished, http, taskVars>>
serverVars == <<worker_task, workers, stops, tasks, pending, queue, unfinished, http, taskVars>>
callVars == <<pc, call, ret>>

None == "None"
NoCenter == <<>>      \* the None a function returns in place of an (x, y) pair

Max(a, b) == IF a >= b THEN a ELSE b
Min(a, b) == IF a <= b THEN a ELSE b
Abs(a) == IF a < 0 THEN -a ELSE a

Num(n) == [t |-> "num", v |-> n]
Blank == [t |-> "blank", v |-> 0]
PyNone == [t |-> "None", v |-> 0]
NaN == [t |-> "nan", v |-> 0]

(***************************************************************************)
(* Bounds of the model.                                                    *)
(***************************************************************************)
MaxHole == 3        \* hole radius / hole length of drill_to_ki run over 0..MaxHole
MaxPad == 4         \* pad width / height of drill_to_ki run over 0..MaxPad
MaxDim == 60        \* fp_to_ki runs over -MaxDim..MaxDim vendor units
MaxCoord == 2       \* is_point_in_polygon: polygon vertices over (0..MaxCoord)^2
MaxBox == 4         \* find_circle_center_in_polygon: box corners over {0, 3, .., 3*MaxBox}
MaxHalf == 2        \* find_circle_center_in_polygon: radius over {2, .., 2*MaxHalf}

----------------------------------------------------------------------------
(***************************************************************************)
(* GeometryKernel: kicad/export_kicad_footprint.py                         *)
(***************************************************************************)

\* fp_to_ki, lines 116-119.  dim is a vendor-unit value; the numeric result is
\* round(dim * 10 * 0.0254, 2), held in hundredths of a millimetre:
\* round(dim * 25.4) = floor((254 * dim + 5) / 10).  (254 * dim is never 5 mod 10,
\* so no tie is ever rounded.)  "", None and NaN are returned as they came.
fp_to_ki_unscaled(dim) ==
    IF dim.t = "num" THEN Num((254 * dim.v + 50) \div 100) ELSE dim

fp_to_ki(dim) ==
    IF dim.t = "num" THEN Num((254 * dim.v + 5) \div 10) ELSE dim

\* The string drill_to_ki formats, as its parts.
DrillOval(a, b) == <<"drill", "oval", a, b>>
DrillRound(d) == <<"drill", d>>
NoDrill == <<>>

\* drill_to_ki, lines 125-145.  hole_length is a [t, v] value ("" and None are
\* tested by the code); the other arguments are numbers.
drill_to_ki_swapped(hole_radius, hole_length, pad_height, pad_width) ==
    IF hole_radius > 0 /\ hole_length.t = "num" /\ hole_length.v # 0
    THEN LET max_distance_hole == Max(hole_radius * 2, hole_length.v)
             pos_0 == pad_height - max_distance_hole
             pos_90 == pad_width - max_distance_hole
             max_distance == Max(pos_0, pos_90)
         IN  IF max_distance = pos_0
             THEN DrillOval(hole_length.v, hole_radius * 2)
             ELSE DrillOval(hole_radius * 2, hole_length.v)
    ELSE IF hole_radius > 0 THEN DrillRound(2 * hole_radius)
    ELSE NoDrill

drill_to_ki(hole_radius, hole_length, pad_height, pad_width) ==
    IF hole_radius > 0 /\ hole_length.t = "num" /\ hole_length.v # 0
    THEN LET max_distance_hole == Max(hole_radius * 2, hole_length.v)
             pos_0 == pad_height - max_distance_hole
             pos_90 == pad_width - max_distance_hole
             max_distance == Max(pos_0, pos_90)
         IN  IF max_distance = pos_0
             THEN DrillOval(hole_radius * 2, hole_length.v)
             ELSE DrillOval(hole_length.v, hole_radius * 2)
    ELSE IF hole_radius > 0 THEN DrillRound(2 * hole_radius)
    ELSE NoDrill

\* angle_to_ki, lines 151-154.  rotation is a [t, v] value in degrees; NaN gives "".
angle_to_ki_ge(rotation) ==
    IF rotation.t # "nan"
    THEN (IF rotation.v >= 180 THEN Num(-(360 - rotation.v)) ELSE rotation)
    ELSE Blank

angle_to_ki(rotation) ==
    IF rotation.t # "nan"
    THEN (IF rotation.v > 180 THEN Num(-(360 - rotation.v)) ELSE rotation)
    ELSE Blank

\* compute_arc, lines 93-101: the extent before the sweep adjustment is
\* to_degrees(sign * acos(clamped_ratio)), a value of [-180, 180], or 360 + 359
\* when n = 0.  Whole degrees stand for it.
DegenerateExtent == 360 + 359
RawExtents == (-180 .. 180) \cup {DegenerateExtent}

\* compute_arc, lines 102-105.
AdjustSweep(angle_extent, sweep_flag) ==
    IF ~sweep_flag /\ angle_extent > 0 THEN angle_extent - 360
    ELSE IF sweep_flag /\ angle_extent < 0 THEN angle_extent + 360
    ELSE angle_extent

\* compute_arc, lines 107-108.
NormalizeExtent_keep(angle_extent) ==
    LET angleExtent_sign == IF angle_extent < 0 THEN -1 ELSE 1
    IN  (Abs(angle_extent) % 360) * angleExtent_sign

NormalizeExtent(angle_extent) ==
    LET angleExtent_sign == IF angle_extent < 0 THEN 1 ELSE -1
    IN  (Abs(angle_extent) % 360) * angleExtent_sign

\* compute_arc, lines 102-110, from the raw extent on: the adjusted extent
\* and the extent returned.
compute_arc_extent(raw_extent, sweep_flag) ==
    LET adjusted == AdjustSweep(raw_extent, sweep_flag)
    IN  [adjusted |-> adjusted, angle_extent |-> NormalizeExtent(adjusted)]

\* acos(p / n) in degrees for n = sqrt(nn) > 0, where p / n is the cosine of a
\* multiple of 45 degrees: p * p is nn, nn / 2 or 0.
AcosDegrees(p, nn) ==
    CASE p * p = nn /\ p > 0 -> 0
      [] 2 * p * p = nn /\ p > 0 -> 45
      [] p = 0 -> 90
      [] 2 * p * p = nn /\ p < 0 -> 135
      [] p * p = nn /\ p < 0 -> 180

\* compute_arc, lines 93-101: the extent before the sweep adjustment, from the
\* vectors u = (ux, uy) and v = (vx, vy).  n = sqrt(nn) is zero exactly when nn
\* is; max(-1, min(1, p / n)) is p / n.
RawExtentOf_full_turn(u, v) ==
    LET nn == (u[1] * u[1] + u[2] * u[2]) * (v[1] * v[1] + v[2] * v[2])
        p == u[1] * v[1] + u[2] * v[2]
        sign == IF u[1] * v[2] - u[2] * v[1] < 0 THEN -1 ELSE 1
    IN  IF nn # 0 THEN sign * AcosDegrees(p, nn) ELSE 360

RawExtentOf(u, v) ==
    LET nn == (u[1] * u[1] + u[2] * u[2]) * (v[1] * v[1] + v[2] * v[2])
        p == u[1] * v[1] + u[2] * v[2]
        sign == IF u[1] * v[2] - u[2] * v[1] < 0 THEN -1 ELSE 1
    IN  IF nn # 0 THEN sign * AcosDegrees(p, nn) ELSE DegenerateExtent

\* compute_arc, lines 93-110, from the vectors on: the extent before the sweep
\* adjustment, the adjusted extent and the extent returned.
compute_arc_from_vectors(u, v, sweep_flag) ==
    LET raw_extent == RawExtentOf(u, v)
        extent == compute_arc_extent(raw_extent, sweep_flag)
    IN  [raw_extent |-> raw_extent, adjusted |-> extent.adjusted,
         angle_extent |-> extent.angle_extent]

\* compute_arc, lines 36-91, as far as its divisions go, for an angle that is a
\* multiple of 360 degrees (cos_angle is 1 and sin_angle is 0, so x1 = dx2 and
\* y1 = dy2): "ZeroDivisionError" when a division is evaluated whose
\* denominator is zero, "returned" when the function reaches its return.  The
\* arguments are integers; x1 and y1 stand doubled, which changes neither what
\* is zero nor what is positive.  Where radiiCheck > 1 both radii are multiplied
\* by sqrt(radiiCheck) > 1, which changes neither as well.  In the order of the
\* code:
\*   line 59       Px1 / Pradius_x + Py1 / Pradius_y if Pradius_x != 0 and Pradius_y != 0
\*   lines 70-73   (...) / (Pradius_x * Py1 + Pradius_y * Px1) if that sum > 0
\*   line 76       (radius_x * y1) / radius_y
\*   line 77       (radius_y * x1) / radius_x if radius_x != 0
\*   lines 87-90   ux, vx by radius_x if radius_x != 0; uy, vy by radius_y if radius_y != 0
\*   line 98       p / n if n != 0
compute_arc_divisions(start_x, start_y, radius_x, radius_y, end_x, end_y) ==
    LET x1 == start_x - end_x
        y1 == start_y - end_y
        abs_radius_x == Abs(radius_x)
        abs_radius_y == Abs(radius_y)
        Pradius_x == abs_radius_x * abs_radius_x
        Pradius_y == abs_radius_y * abs_radius_y
        Px1 == x1 * x1
        Py1 == y1 * y1
        sum == Pradius_x * Py1 + Pradius_y * Px1
        Guarded(guard, denominator) == IF guard THEN <<denominator>> ELSE <<>>
    IN  Guarded(Pradius_x # 0 /\ Pradius_y # 0, Pradius_x)
        \o Guarded(Pradius_x # 0 /\ Pradius_y # 0, Pradius_y)
        \o Guarded(sum > 0, sum)
        \o <<abs_radius_y>>
        \o Guarded(abs_radius_x # 0, abs_radius_x)
        \o Guarded(abs_radius_x # 0, abs_radius_x)
        \o Guarded(abs_radius_y # 0, abs_radius_y)
        \o Guarded(abs_radius_x # 0, abs_radius_x)
        \o Guarded(abs_radius_y # 0, abs_radius_y)

compute_arc_outcome(start_x, start_y, radius_x, radius_y, end_x, end_y) ==
    LET denominators ==
            compute_arc_divisions(start_x, start_y, radius_x, radius_y, end_x, end_y)
    IN  IF \E k \in 1 .. Len(denominators) : denominators[k] = 0
        THEN "ZeroDivisionError" ELSE "returned"

----------------------------------------------------------------------------
(***************************************************************************)
(* ShapeFitter: kicad/export_kicad_footprint.py                            *)
(*                                                                         *)
(* The vertices of the regular 12-gon are center + radius * cos/sin of a   *)
(* multiple of 30 degrees, so they lie in Z[sqrt 3] once the radius is an  *)
(* even number of units.  A coordinate a + b*sqrt(3) is the pair <<a, b>>; *)
(* the comparisons below are exact, where the code evaluates them in       *)
(* floating point (with the tolerance 1e-9 in is_on_segment).  Polygon     *)
(* vertices are pairs of integers.                                         *)
(***************************************************************************)
Z(n) == <<n, 0>>
ZAdd(u, v) == <<u[1] + v[1], u[2] + v[2]>>
ZSub(u, v) == <<u[1] - v[1], u[2] - v[2]>>
ZScale(n, u) == <<n * u[1], n * u[2]>>

RECURSIVE Gcd(_, _)
Gcd(a, b) == IF b = 0 THEN a ELSE Gcd(b, a % b)

\* The sign of a + b * sqrt(3).  Where a and b have opposite signs it is decided
\* by a^2 against 3 * b^2, on a and b without their common factor.
ZSign(u) ==
    IF u[1] = 0 /\ u[2] = 0 THEN 0
    ELSE IF u[1] >= 0 /\ u[2] >= 0 THEN 1
    ELSE IF u[1] <= 0 /\ u[2] <= 0 THEN -1
    ELSE LET g == Gcd(Abs(u[1]), Abs(u[2]))
             a == u[1] \div g
             b == u[2] \div g
         IN  IF a > 0 THEN (IF a * a > 3 * b * b THEN 1 ELSE -1)
             ELSE (IF 3 * b * b > a * a THEN 1 ELSE -1)

ZLe(u, v) == ZSign(ZSub(v, u)) >= 0
ZLt(u, v) == ZSign(ZSub(v, u)) > 0

\* (px - x0) * (y1 - y0) - (py - y0) * (x1 - x0), line 177.
SegmentCross(x0, y0, x1, y1, px, py) ==
    ZSub(ZScale(y1 - y0, ZSub(px, Z(x0))), ZScale(x1 - x0, ZSub(py, Z(y0))))

\* is_on_segment, lines 170-178.
is_on_segment(x0, y0, x1, y1, px, py) ==
    /\ ZLe(Z(Min(x0, x1)), px) /\ ZLe(px, Z(Max(x0, x1)))
    /\ ZLe(Z(Min(y0, y1)), py) /\ ZLe(py, Z(Max(y0, y1)))
    /\ ZSign(SegmentCross(x0, y0, x1, y1, px, py)) = 0

\* is_left, lines 181-182.
is_left(x0, y0, x1, y1, px, py) ==
    ZSign(ZSub(ZScale(x1 - x0, ZSub(py, Z(y0))), ZScale(y1 - y0, ZSub(px, Z(x0))))) > 0

\* One edge's contribution to the winding number, lines 199-202.
WindingStep_up(x0, y0, x1, y1, x, y) ==
    IF ZLe(Z(y0), y) /\ ZLt(y, Z(y1)) /\ is_left(x0, y0, x1, y1, x, y) THEN 1
    ELSE IF ZLe(Z(y1), y) /\ ZLt(y, Z(y0)) /\ ~is_left(x0, y0, x1, y1, x, y) THEN 1
    ELSE 0

WindingStep(x0, y0, x1, y1, x, y) ==
    IF ZLe(Z(y0), y) /\ ZLt(y, Z(y1)) /\ is_left(x0, y0, x1, y1, x, y) THEN 1
    ELSE IF ZLe(Z(y1), y) /\ ZLt(y, Z(y0)) /\ ~is_left(x0, y0, x1, y1, x, y) THEN -1
    ELSE 0

\* The loop of is_point_in_polygon from edge i on (i counts from 1), lines 192-204.
RECURSIVE PointInPolygonFrom(_, _, _, _)
PointInPolygonFrom(i, winding_number, point, polygon) ==
    LET n == Len(polygon)
    IN  IF i > n THEN winding_number # 0
        ELSE LET x0 == polygon[i][1]
                 y0 == polygon[i][2]
                 x1 == polygon[(i % n) + 1][1]
                 y1 == polygon[(i % n) + 1][2]
             IN  IF is_on_segment(x0, y0, x1, y1, point[1], point[2]) THEN TRUE
                 ELSE PointInPolygonFrom(i + 1,
                          winding_number + WindingStep(x0, y0, x1, y1, point[1], point[2]),
                          point, polygon)

\* is_point_in_polygon, lines 185-204.
is_point_in_polygon(point, polygon) == PointInPolygonFrom(1, 0, point, polygon)

\* 2 * cos(2 * pi * i / 12), i = 0 .. 11, in Z[sqrt 3].
TwoCos12(i) ==
    LET k == i % 12
    IN  CASE k = 0 -> <<2, 0>>
          [] k \in {1, 11} -> <<0, 1>>
          [] k \in {2, 10} -> <<1, 0>>
          [] k \in {3, 9} -> <<0, 0>>
          [] k \in {4, 8} -> <<-1, 0>>
          [] k \in {5, 7} -> <<0, -1>>
          [] k = 6 -> <<-2, 0>>

\* get_circumscribed_regular_polygon(center, radius, 12), lines 207-214; radius = 2 * half.
\* sin(2 * pi * i / 12) = cos(2 * pi * (i - 3) / 12).
get_circumscribed_regular_polygon(center, half) ==
    [i \in 1 .. 12 |->
        <<ZAdd(center[1], ZScale(half, TwoCos12(i - 1))),
          ZAdd(center[2], ZScale(half, TwoCos12((i - 1) + 9)))>>]

\* is_circle_in_polygon, lines 217-223; radius = 2 * half.
is_circle_in_polygon(center, half, polygon) ==
    LET vertices == get_circumscribed_regular_polygon(center, half)
    IN  \A i \in 1 .. 12 : is_point_in_polygon(vertices[i], polygon)

\* get_bounds_of_polygon, lines 226-233.
SetMin(S) == CHOOSE m \in S : \A k \in S : m <= k
SetMax(S) == CHOOSE m \in S : \A k \in S : m >= k
get_bounds_of_polygon(polygon) ==
    LET xs == {polygon[i][1] : i \in 1 .. Len(polygon)}
        ys == {polygon[i][2] : i \in 1 .. Len(polygon)}
    IN  [min_x |-> SetMin(xs), max_x |-> SetMax(xs), min_y |-> SetMin(ys), max_y |-> SetMax(ys)]

\* step = 0.05, line 246, is Step units: a unit is 0.025.
Step == 2

\* frange, lines 236-239: the number of values it yields.
frange_count(start, stop, step) == ((stop - start) \div step) + 1

\* find_circle_center_in_polygon, lines 248-253.  The inner loop returns at the
\* first y that fits: its result is the point of the least index among the points
\* of the column that fit.  The outer loop goes on from x index ix.  Indices
\* count from 0.
ScanY(x, b, half, polygon) ==
    LET hits == {iy \in 0 .. frange_count(b.min_y, b.max_y, Step) - 1 :
                    is_circle_in_polygon(<<Z(x), Z(b.min_y + Step * iy)>>, half, polygon)}
    IN  IF hits = {} THEN NoCenter ELSE <<x, b.min_y + Step * SetMin(hits)>>

RECURSIVE ScanX(_, _, _, _)
ScanX(ix, b, half, polygon) ==
    IF ix >= frange_count(b.min_x, b.max_x, Step) THEN NoCenter
    ELSE LET found == ScanY(b.min_x + Step * ix, b, half, polygon)
         IN  IF found # NoCenter THEN found ELSE ScanX(ix + 1, b, half, polygon)

\* The same scan with y outer and x inner.
ScanXInner(y, b, half, polygon) ==
    LET hits == {ix \in 0 .. frange_count(b.min_x, b.max_x, Step) - 1 :
                    is_circle_in_polygon(<<Z(b.min_x + Step * ix), Z(y)>>, half, polygon)}
    IN  IF hits = {} THEN NoCenter ELSE <<b.min_x + Step * SetMin(hits), y>>

RECURSIVE ScanYOuter(_, _, _, _)
ScanYOuter(iy, b, half, polygon) ==
    IF iy >= frange_count(b.min_y, b.max_y, Step) THEN NoCenter
    ELSE LET found == ScanXInner(b.min_y + Step * iy, b, half, polygon)
         IN  IF found # NoCenter THEN found ELSE ScanYOuter(iy + 1, b, half, polygon)

find_circle_center_y_outer(polygon, half) ==
    ScanYOuter(0, get_bounds_of_polygon(polygon), half, polygon)

\* find_circle_center_in_polygon, lines 242-253; radius = 2 * half.
find_circle_center_in_polygon(polygon, half) ==
    ScanX(0, get_bounds_of_polygon(polygon), half, polygon)

----------------------------------------------------------------------------
(***************************************************************************)
(* FootprintExporter: the pad loop of generate_kicad_footprint,            *)
(* kicad/export_kicad_footprint.py lines 471-535.                          *)
(*                                                                         *)
(* Lengths and coordinates of a pad and of the bounding box are in         *)
(* hundredths of a millimetre.  ee_pad.points is the sequence of the       *)
(* tokens that single blanks separate in the string: Num(n) for a number   *)
(* of vendor units, Blank for the empty token two adjacent blanks leave;   *)
(* the empty string is the empty sequence.  The shape fitter works in      *)
(* units of 0.025 mm (Step is 0.05 mm), so a coordinate that reaches it    *)
(* is a multiple of 0.05 mm.                                               *)
(***************************************************************************)
\* KI_PAD_SHAPE[ee_pad.shape] if ee_pad.shape in KI_PAD_SHAPE else "custom",
\* lines 475-479, with the table of kicad/parameters_kicad_footprint.py.
KI_PAD_SHAPE ==
    [shape \in {"ELLIPSE", "RECT", "OVAL", "POLYGON"} |->
        CASE shape = "ELLIPSE" -> "circle"
          [] shape = "RECT" -> "rect"
          [] shape = "OVAL" -> "oval"
          [] shape = "POLYGON" -> "custom"]

PadShape(shape) == IF shape \in DOMAIN KI_PAD_SHAPE THEN KI_PAD_SHAPE[shape] ELSE "custom"

\* ee_pad.points.split(" "), line 500: the split of "" is [""].
SplitPoints(points) == IF points = <<>> THEN <<Blank>> ELSE points

\* Hundredths of a millimetre to units of the shape fitter and back.
ToGrid(h) == (2 * h) \div 5
FromGrid(g) == (5 * g) \div 2

\* The pad as created, lines 472-496.
NewPad(ee_pad, bbox) ==
    LET width == Max(ee_pad.width, 1)
        height == Max(ee_pad.height, 1)
    IN  [type |-> IF ee_pad.hole_radius > 0 THEN "thru_hole" ELSE "smd",
         shape |-> PadShape(ee_pad.shape),
         pos_x |-> ee_pad.center_x - bbox.x,
         pos_y |-> ee_pad.center_y - bbox.y,
         width |-> width,
         height |-> height,
         layers |-> IF ee_pad.hole_radius <= 0 THEN "KI_PAD_LAYER" ELSE "KI_PAD_LAYER_THT",
         drill |-> drill_to_ki(ee_pad.hole_radius, ee_pad.hole_length, height, width),
         orientation |-> angle_to_ki(ee_pad.rotation),
         polygon |-> <<>>]

\* absolute_coords, lines 512-518: the exception the comprehension raises, or
\* None.  Pair k reads point_list[2k - 2] and then point_list[2k - 1] (from 0);
\* "" - float is a TypeError, an index past the end an IndexError.
RECURSIVE AbsoluteCoordsError(_, _)
AbsoluteCoordsError(point_list, k) ==
    IF 2 * k - 1 > Len(point_list) THEN None
    ELSE IF point_list[2 * k - 1].t # "num" THEN "TypeError"
    ELSE IF 2 * k > Len(point_list) THEN "IndexError"
    ELSE IF point_list[2 * k].t # "num" THEN "TypeError"
    ELSE AbsoluteCoordsError(point_list, k + 1)

AbsoluteCoords(point_list, bbox) ==
    [k \in 1 .. Len(point_list) \div 2 |->
        <<point_list[2 * k - 1].v - bbox.x, point_list[2 * k].v - bbox.y>>]

\* set_appropriate_position_for_custom_shape, lines 256-272: the position of
\* the pad afterwards and whether the warning was logged.
set_appropriate_position_keep(pos, width, polygon) ==
    [pos |-> pos, warned |-> FALSE]

set_appropriate_position_always_scan(pos, width, polygon) ==
    LET half == ToGrid(width \div 2) \div 2
        grid_polygon == [k \in 1 .. Len(polygon) |->
                             <<ToGrid(polygon[k][1]), ToGrid(polygon[k][2])>>]
        new_center == find_circle_center_in_polygon(grid_polygon, half)
    IN  IF new_center = NoCenter THEN [pos |-> pos, warned |-> TRUE]
        ELSE [pos |-> <<FromGrid(new_center[1]), FromGrid(new_center[2])>>,
              warned |-> FALSE]

set_appropriate_position_for_custom_shape(pos, width, polygon) ==
    LET half == ToGrid(width \div 2) \div 2
        grid_polygon == [k \in 1 .. Len(polygon) |->
                             <<ToGrid(polygon[k][1]), ToGrid(polygon[k][2])>>]
        center == <<Z(ToGrid(pos[1])), Z(ToGrid(pos[2]))>>
    IN  IF is_circle_in_polygon(center, half, grid_polygon)
        THEN [pos |-> pos, warned |-> FALSE]
        ELSE LET new_center == find_circle_center_in_polygon(grid_polygon, half)
             IN  IF new_center = NoCenter THEN [pos |-> pos, warned |-> TRUE]
                 ELSE [pos |-> <<FromGrid(new_center[1]), FromGrid(new_center[2])>>,
                       warned |-> FALSE]

\* One turn of the pad loop, lines 472-535: raised is the exception that leaves
\* generate_kicad_footprint (None when the pad was appended), pads what was
\* appended to self.output.pads, warnings what was logged.
TranslatePad(ee_pad, bbox, KI_PAD_SIZE_MIN) ==
    LET ki_pad == NewPad(ee_pad, bbox)
        tokens == SplitPoints(ee_pad.points)
        point_list == [k \in 1 .. Len(tokens) |-> fp_to_ki(tokens[k])]
    IN  IF ki_pad.shape # "custom"
        THEN [raised |-> None, pads |-> <<ki_pad>>, warnings |-> <<>>]
        ELSE IF Len(point_list) <= 0
        THEN [raised |-> None, pads |-> <<ki_pad>>, warnings |-> <<"no points defined">>]
        ELSE IF AbsoluteCoordsError(point_list, 1) # None
        THEN [raised |-> AbsoluteCoordsError(point_list, 1), pads |-> <<>>,
              warnings |-> <<>>]
        ELSE LET absolute_coords == AbsoluteCoords(point_list, bbox)
                 placed == set_appropriate_position_for_custom_shape(
                               <<ki_pad.pos_x, ki_pad.pos_y>>, KI_PAD_SIZE_MIN,
                               absolute_coords)
                 relative_coords ==
                     [k \in 1 .. Len(absolute_coords) |->
                         <<absolute_coords[k][1] - placed.pos[1],
                           absolute_coords[k][2] - placed.pos[2]>>]
             IN  [raised |-> None,
                  pads |-> <<[ki_pad EXCEPT !.width = KI_PAD_SIZE_MIN,
                                            !.height = KI_PAD_SIZE_MIN,
                                            !.orientation = Num(0),
                                            !.pos_x = placed.pos[1],
                                            !.pos_y = placed.pos[2],
                                            !.polygon = relative_coords]>>,
                  warnings |-> IF placed.warned THEN <<"cannot contain its anchor pad">>
                               ELSE <<>>]

(***************************************************************************)
(* The placement of the 3D model in generate_kicad_footprint, lines        *)
(* 402-465.  Footprint lengths are in hundredths of a millimetre, the      *)
(* model's translation in thousandths; a center or size is Nothing or      *)
(* Some tuple of hundredths.                                               *)
(***************************************************************************)
Nothing == [t |-> "None", v |-> <<>>]
Some(v) == [t |-> "some", v |-> v]

\* round(n / d), d # 0, to the nearest integer, a tie going to the even one.
RoundDiv(n, d) ==
    LET num == IF d < 0 THEN -n ELSE n
        den == Abs(d)
        q == num \div den
        r == num % den
    IN  IF 2 * r < den THEN q
        ELSE IF 2 * r > den THEN q + 1
        ELSE IF q % 2 = 0 THEN q ELSE q + 1

\* compute_geometry_center, lines 285-371, of a footprint whose boxes are the
\* arguments of its update_box calls: the bounds, and the sums that are twice
\* the center.
compute_geometry_center(footprint) ==
    LET min_x == IF footprint.boxes = {} THEN footprint.bbox.x
                 ELSE SetMin({Min(box.x1, box.x2) : box \in footprint.boxes})
        max_x == IF footprint.boxes = {} THEN footprint.bbox.x
                 ELSE SetMax({Max(box.x1, box.x2) : box \in footprint.boxes})
        min_y == IF footprint.boxes = {} THEN footprint.bbox.y
                 ELSE SetMin({Min(box.y1, box.y2) : box \in footprint.boxes})
        max_y == IF footprint.boxes = {} THEN footprint.bbox.y
                 ELSE SetMax({Max(box.y1, box.y2) : box \in footprint.boxes})
    IN  [sum_x |-> min_x + max_x, sum_y |-> min_y + max_y,
         min_x |-> min_x, max_x |-> max_x, min_y |-> min_y, max_y |-> max_y]

\* The condition of line 423-430, without its last conjunct.
UseScaleFit_two_axes(model_3d) ==
    /\ model_3d.center.t # "None"
    /\ model_3d.size.t # "None"
    /\ Len(model_3d.center.v) = 3
    /\ Len(model_3d.size.v) = 3
    /\ \A axis \in 1 .. 2 : model_3d.size.v[axis] # 0

\* The condition of lines 423-430.
UseScaleFit(model_3d) ==
    /\ model_3d.center.t # "None"
    /\ model_3d.size.t # "None"
    /\ Len(model_3d.center.v) = 3
    /\ Len(model_3d.size.v) = 3
    /\ \A axis \in 1 .. 2 : model_3d.size.v[axis] # 0
    /\ model_3d.size.v[3] # 0

\* "footprint_width / model_size_x if model_size_x else 1.0", lines 434-435,
\* as a fraction.
ScaleOf(extent, model_size) ==
    IF model_size # 0 THEN [n |-> extent, d |-> model_size] ELSE [n |-> 1, d |-> 1]

\* Lines 402-465: the Ki3dModel, with the branch that placed it.
Place3dModel(footprint) ==
    LET model_3d == footprint.model_3d
        geometry == compute_geometry_center(footprint)
        footprint_origin_x == footprint.bbox.x
        footprint_origin_y == footprint.bbox.y
        footprint_width == geometry.max_x - geometry.min_x
        footprint_height == geometry.max_y - geometry.min_y
        scale_x == ScaleOf(footprint_width, model_3d.size.v[1])
        scale_y == ScaleOf(footprint_height, model_3d.size.v[2])
        rotation == [axis \in 1 .. 3 |-> (360 - model_3d.rotation[axis]) % 360]
    IN  IF UseScaleFit(model_3d)
        THEN [algorithm |-> "scale_fit",
              \* round(local_center_x - model_center_x * scale_x, 2)
              x |-> RoundDiv((geometry.sum_x - 2 * footprint_origin_x) * scale_x.d
                             - 2 * model_3d.center.v[1] * scale_x.n, 2 * scale_x.d),
              y |-> -RoundDiv((geometry.sum_y - 2 * footprint_origin_y) * scale_y.d
                              - 2 * model_3d.center.v[2] * scale_y.n, 2 * scale_y.d),
              \* -round(model_center_z - model_size_z / 2, 2)
              z |-> -RoundDiv(2 * model_3d.center.v[3] - model_3d.size.v[3], 2),
              rotation |-> rotation]
        ELSE [algorithm |-> "fallback",
              x |-> RoundDiv(model_3d.translation.x - 10 * footprint_origin_x, 10),
              y |-> -RoundDiv(model_3d.translation.y - 10 * footprint_origin_y, 10),
              z |-> IF footprint.info.fp_type = "smd"
                    THEN -RoundDiv(model_3d.translation.z, 10)
                    ELSE 0,
              rotation |-> rotation]

(***************************************************************************)
(* The track and rectangle loops of generate_kicad_footprint, lines        *)
(* 537-564 and 605-646.  A track's points are tokens as a pad's are.       *)
(***************************************************************************)
\* KI_PAD_LAYER[layer_id] if layer_id in KI_PAD_LAYER else "F.Fab", lines
\* 540-544 and 608-612, with the table of kicad/parameters_kicad_footprint.py.
KI_PAD_LAYER == [layer_id \in {1, 2} |-> IF layer_id = 1 THEN "F.Cu" ELSE "B.Cu"]

LineLayer(layer_id) ==
    IF layer_id \in DOMAIN KI_PAD_LAYER THEN KI_PAD_LAYER[layer_id] ELSE "F.Fab"

\* The loop "for i in range(0, len(point_list) - 2, 2)", lines 550-562: the
\* exception it raises, or None.  Turn k reads point_list[2k - 2 .. 2k + 1]
\* (from 0), in that order.
RECURSIVE TrackError(_, _)
TrackError(point_list, k) ==
    IF 2 * k - 1 > Len(point_list) - 2 THEN None
    ELSE IF point_list[2 * k - 1].t # "num" THEN "TypeError"
    ELSE IF point_list[2 * k].t # "num" THEN "TypeError"
    ELSE IF point_list[2 * k + 1].t # "num" THEN "TypeError"
    ELSE IF 2 * k + 2 > Len(point_list) THEN "IndexError"
    ELSE IF point_list[2 * k + 2].t # "num" THEN "TypeError"
    ELSE TrackError(point_list, k + 1)

\* The i of the turns of the loop, counted from 1: 1, 3, 5, ...
TrackTurns_disjoint(point_list) ==
    LET turns == (Len(point_list) - 2 + 3) \div 4
    IN  [k \in 1 .. turns |-> 4 * k - 3]

TrackTurns(point_list) ==
    LET turns == (Len(point_list) - 2 + 1) \div 2
    IN  [k \in 1 .. turns |-> 2 * k - 1]

\* One turn of the track loop, lines 537-564.
TranslateTrack(ee_track, bbox) ==
    LET tokens == SplitPoints(ee_track.points)
        point_list == [k \in 1 .. Len(tokens) |-> fp_to_ki(tokens[k])]
        turns == TrackTurns(point_list)
    IN  IF TrackError(point_list, 1) # None
        THEN [raised |-> TrackError(point_list, 1), lines |-> <<>>]
        ELSE [raised |-> None,
              lines |-> <<[layers |-> LineLayer(ee_track.layer_id),
                           stroke_width |-> Max(ee_track.stroke_width, 1),
                           points_start_x |->
                               [k \in 1 .. Len(turns) |-> point_list[turns[k]].v - bbox.x],
                           points_start_y |->
                               [k \in 1 .. Len(turns) |-> point_list[turns[k] + 1].v - bbox.y],
                           points_end_x |->
                               [k \in 1 .. Len(turns) |-> point_list[turns[k] + 2].v - bbox.x],
                           points_end_y |->
                               [k \in 1 .. Len(turns) |-> point_list[turns[k] + 3].v - bbox.y]]>>]

\* One turn of the rectangle loop, lines 605-646.
TranslateRectangle(ee_rectangle, bbox) ==
    LET start_x == ee_rectangle.x - bbox.x
        start_y == ee_rectangle.y - bbox.y
        width == ee_rectangle.width
        height == ee_rectangle.height
    IN  [raised |-> None,
         lines |-> <<[layers |-> LineLayer(ee_rectangle.layer_id),
                      stroke_width |-> Max(ee_rectangle.stroke_width, 1),
                      points_start_x |->
                          <<start_x, start_x + width, start_x + width, start_x>>,
                      points_start_y |->
                          <<start_y, start_y, start_y + height, start_y + height>>,
                      points_end_x |->
                          <<start_x + width, start_x + width, start_x, start_x>>,
                      points_end_y |->
                          <<start_y, start_y + height, start_y + height, start_y>>]>>]

----------------------------------------------------------------------------
(***************************************************************************)
(* The API server: create_app() of api/server.py.                          *)
(*                                                                         *)
(* Everything runs on one asyncio event loop, so a coroutine runs alone    *)
(* from one suspension to the next; an action is one such stretch.         *)
(* app.state.worker_task is <<>> for None and <<w>> for the worker task w. *)
(* A worker task is "ready" (created, not yet run), "get" (suspended in    *)
(* queue.get() on an empty queue), "cancelling" (cancel() was called, the  *)
(* CancelledError is not yet raised in it) or "done".  stops holds, for    *)
(* every stop_worker() suspended in "await worker_task", the task it       *)
(* awaits.                                                                 *)
(***************************************************************************)
NoTask == <<>>

\* No run of the conversion runner: the worker has not called to_thread yet.
NoThread == [task |-> 0, calls |-> 0, state |-> "none"]

\* TaskRecord(id=task_id, request=request), lines 44-57.  result and error are
\* None or set; finished_at counts the assignments to the field, 0 for None;
\* log holds the stage of each entry.
TaskRecord ==
    [status |-> "queued", progress |-> 0, result |-> None, error |-> None,
     started_at |-> 0, finished_at |-> 0, log |-> <<>>]

\* create_app, lines 773-779.
ServerInit ==
    /\ worker_task = NoTask
    /\ workers = <<>>
    /\ stops = <<>>
    /\ tasks = {}
    /\ pending = <<>>
    /\ queue = <<>>
    /\ unfinished = 0
    /\ http = None
    /\ records = <<>>
    /\ joins = <<>>
    /\ threads = <<>>
    /\ ready = <<>>

MaxWorkers == 3     \* worker tasks created in a run
MaxStops == 2       \* stop_worker() calls suspended at a time
MaxTasks == 2       \* task records registered in a run

Init == pc = "server" /\ call = None /\ ret = None /\ ServerInit

\* app.state.worker_task is None or app.state.worker_task.done(), line 935.
NoneOrDone(task) == IF task = NoTask THEN TRUE ELSE workers[task[1]] = "done"

\* start_worker, lines 934-936.
start_worker ==
    /\ pc = "server"
    /\ \/ /\ ~NoneOrDone(worker_task)
          /\ UNCHANGED vars
       \/ /\ NoneOrDone(worker_task)
          /\ Len(workers) < MaxWorkers
          /\ workers' = Append(workers, "ready")
          /\ threads' = Append(threads, NoThread)
          /\ worker_task' = <<Len(workers) + 1>>
          /\ UNCHANGED <<callVars, records, joins, ready, stops, tasks, pending, queue, unfinished, http>>

\* worker, lines 873-876: the task's first stretch, up to queue.get() on the
\* empty queue.  No record is ever put (enqueue_task below), so the loop's body
\* past queue.get() has no run.
WorkerRun(w) ==
    /\ pc = "server"
    /\ workers[w] = "ready"
    /\ queue = <<>>
    /\ workers' = [workers EXCEPT ![w] = "get"]
    /\ UNCHANGED <<callVars, taskVars, worker_task, stops, tasks, pending, queue, unfinished, http>>

\* The CancelledError of worker_task.cancel() is raised in the worker at its
\* suspension (or before its first stretch) and ends the task: "while True" has
\* no handler for it.
WorkerCancelled(w) ==
    /\ pc = "server"
    /\ workers[w] = "cancelling"
    /\ workers' = [workers EXCEPT ![w] = "done"]
    /\ UNCHANGED <<callVars, taskVars, worker_task, stops, tasks, pending, queue, unfinished, http>>

\* stop_worker, lines 938-946, up to its suspension in "await worker_task".
\* queue.join() does not suspend while no record is unfinished; awaiting a task
\* that is done does not suspend either.
stop_worker ==
    /\ pc = "server"
    /\ \/ /\ worker_task = NoTask
          /\ UNCHANGED vars
       \/ /\ worker_task # NoTask
          /\ unfinished = 0
          /\ workers[worker_task[1]] = "done"
          /\ worker_task' = NoTask
          /\ UNCHANGED <<callVars, taskVars, workers, stops, tasks, pending, queue, unfinished, http>>
       \/ /\ worker_task # NoTask
          /\ unfinished = 0
          /\ workers[worker_task[1]] # "done"
          /\ Len(stops) < MaxStops
          /\ workers' = [workers EXCEPT ![worker_task[1]] = "cancelling"]
          /\ stops' = Append(stops, worker_task[1])
          /\ UNCHANGED <<callVars, taskVars, worker_task, tasks, pending, queue, unfinished, http>>

\* stop_worker, lines 945-946: the awaited task is done, the call goes on.
StopWorkerResume(k) ==
    /\ pc = "server"
    /\ k \in 1 .. Len(stops)
    /\ workers[stops[k]] = "done"
    /\ worker_task' = NoTask
    /\ stops' = [i \in 1 .. Len(stops) - 1 |-> IF i < k THEN stops[i] ELSE stops[i + 1]]
    /\ UNCHANGED <<callVars, taskVars, workers, tasks, pending, queue, unfinished, http>>

\* The fields of the dataclass ConversionRequest, service/conversion.py lines 47-56.
ConversionRequestFields ==
    {"lcsc_id", "output_prefix", "overwrite", "generate_symbol", "generate_footprint",
     "generate_model", "kicad_version", "project_relative"}

\* The keywords enqueue_task passes to ConversionRequest, lines 966-978.
EnqueueKeywords ==
    {"lcsc_id", "output_prefix", "overwrite", "overwrite_model", "generate_symbol",
     "generate_footprint", "generate_model", "kicad_version", "project_relative",
     "project_relative_path", "model_path"}

\* TaskCreatePayload, lines 58-92, as far as its validators read it; lcsc_id
\* is the sequence of its characters.
Payloads ==
    [lcsc_id : {<<"C", "1">>, <<"X", "1">>, <<>>}, symbol : BOOLEAN, footprint : BOOLEAN, model : BOOLEAN]

\* validate_lcsc and ensure_target_selected, lines 81-92.
PayloadValid(payload) ==
    /\ payload.lcsc_id # <<>> /\ Head(payload.lcsc_id) = "C"
    /\ payload.symbol \/ payload.footprint \/ payload.model

\* enqueue_task, lines 963-993.  A payload its validators refuse never reaches
\* the handler (422).  A keyword the dataclass does not declare makes
\* ConversionRequest.__init__ raise TypeError, which "except ConversionError"
\* does not catch: the request ends in a 500 before a record is made.
enqueue_task(payload) ==
    /\ pc = "server"
    /\ IF ~PayloadValid(payload)
       THEN /\ http' = "422"
            /\ UNCHANGED <<tasks, records, pending, queue, unfinished>>
       ELSE IF EnqueueKeywords \subseteq ConversionRequestFields
       THEN /\ Cardinality(tasks) < MaxTasks
            /\ LET task_id == Cardinality(tasks) + 1
               IN  /\ tasks' = tasks \cup {task_id}
                   /\ records' = Append(records, TaskRecord)
                   /\ pending' = Append(pending, task_id)
                   /\ queue' = Append(queue, task_id)
            /\ unfinished' = unfinished + 1
            /\ http' = "202"
       ELSE /\ http' = "500"
            /\ UNCHANGED <<tasks, records, pending, queue, unfinished>>
    /\ UNCHANGED <<callVars, worker_task, workers, stops, joins, threads, ready>>

Next ==
    \/ start_worker
    \/ stop_worker
    \/ \E payload \in Payloads : enqueue_task(payload)
    \/ \E w \in 1 .. Len(workers) : WorkerRun(w)
    \/ \E w \in 1 .. Len(workers) : WorkerCancelled(w)
    \/ \E k \in 1 .. Len(stops) : StopWorkerResume(k)

Spec == Init /\ [][Next]_vars

(***************************************************************************)
(* The task flow: worker(), update_progress, the runner threads and        *)
(* queue.join().  enqueue_task registers no record (above), so the flow is *)
(* modelled behind a request record that declares the keywords the handler *)
(* passes: the registration of lines 981-988 then runs as written.  No     *)
(* websocket is subscribed, so broadcast() does not suspend.               *)
(*                                                                         *)
(* A worker task is "thread" while it awaits asyncio.to_thread.  The runner *)
(* runs in a thread of its own: every progress_callback posts one          *)
(* update_progress call to the loop (run_coroutine_threadsafe), and the    *)
(* end of the runner posts the result of to_thread; the loop runs what was *)
(* posted in order.  call.conversion_runner is create_app's argument.      *)
(***************************************************************************)
MaxCallbacks == 1   \* progress_callback calls in one run of the runner

\* ConversionRequest with the fields enqueue_task passes, lines 966-978.
AcceptedRequestFields == ConversionRequestFields \cup EnqueueKeywords

\* enqueue_task, lines 963-993, behind such a request record.
enqueue_task_accepted(payload) ==
    /\ pc = "server"
    /\ IF ~PayloadValid(payload)
       THEN /\ http' = "422"
            /\ UNCHANGED <<tasks, records, pending, queue, unfinished>>
       ELSE IF EnqueueKeywords \subseteq AcceptedRequestFields
       THEN /\ Cardinality(tasks) < MaxTasks
            /\ LET task_id == Cardinality(tasks) + 1
               IN  /\ tasks' = tasks \cup {task_id}
                   /\ records' = Append(records, TaskRecord)
                   /\ pending' = Append(pending, task_id)
                   /\ queue' = Append(queue, task_id)
            /\ unfinished' = unfinished + 1
            /\ http' = "202"
       ELSE /\ http' = "500"
            /\ UNCHANGED <<tasks, records, pending, queue, unfinished>>
    /\ UNCHANGED <<callVars, worker_task, workers, stops, joins, threads, ready>>

\* The stages a runner passes to progress_callback, with a percentage.
Notification(stage, percent) == [stage |-> stage, percent |-> percent]

Notifications ==
    {Notification("EXPORT_SYMBOL", 50), Notification("COMPLETED", 100),
     Notification("FAILED", 50)}

UpdateCall(task_id, notification) ==
    [kind |-> "update_progress", worker |-> 0, task_id |-> task_id,
     stage |-> notification.stage, percent |-> notification.percent, outcome |-> None]

ResultOfThread(w, outcome) ==
    [kind |-> "result", worker |-> w, task_id |-> 0, stage |-> None, percent |-> 0,
     outcome |-> outcome]

\* queue_position, lines 788-792: <<>> for None, <<k>> for the position k.
queue_position(task_id) ==
    IF \E k \in 1 .. Len(pending) : pending[k] = task_id
    THEN <<SetMin({k \in 1 .. Len(pending) : pending[k] = task_id})>>
    ELSE <<>>

\* worker, lines 875-896, from queue.get() returning a record to the await of
\* asyncio.to_thread: the state after the stretch, for worker w.
Dequeued_keep_pending(w, recs, thrs) ==
    LET task_id == Head(queue)
    IN  [queue |-> Tail(queue),
         pending |-> pending,
         records |-> [recs EXCEPT ![task_id].status = "running",
                                  ![task_id].started_at = @ + 1],
         workers |-> [workers EXCEPT ![w] = "thread"],
         threads |-> [thrs EXCEPT ![w] = [task |-> task_id, calls |-> 0,
                                         state |-> "running"]]]

Dequeued(w, recs, thrs) ==
    LET task_id == Head(queue)
    IN  [queue |-> Tail(queue),
         pending |-> IF pending # <<>> /\ Head(pending) = task_id
                     THEN Tail(pending) ELSE pending,
         records |-> [recs EXCEPT ![task_id].status = "running",
                                  ![task_id].started_at = @ + 1],
         workers |-> [workers EXCEPT ![w] = "thread"],
         threads |-> [thrs EXCEPT ![w] = [task |-> task_id, calls |-> 0,
                                         state |-> "running"]]]

\* worker, lines 873-896: a worker that starts, or that was suspended in
\* queue.get(), takes the record at the head of the queue.
WorkerTake(w) ==
    /\ pc = "server"
    /\ workers[w] \in {"ready", "get"}
    /\ queue # <<>>
    /\ LET after == Dequeued(w, records, threads)
       IN  /\ queue' = after.queue
           /\ pending' = after.pending
           /\ records' = after.records
           /\ workers' = after.workers
           /\ threads' = after.threads
    /\ UNCHANGED <<callVars, worker_task, stops, tasks, unfinished, http, joins, ready>>

\* What the runner may pass to progress_callback next: run_conversion reports
\* its stages and ends with COMPLETED (service/conversion.py lines 157-162 and
\* 379-388); any other runner calls as it likes.
MayNotify(thread, notification) ==
    /\ thread.state = "running"
    /\ thread.calls < MaxCallbacks
    /\ call.conversion_runner = "run_conversion" => notification.stage # "FAILED"

\* progress_callback, lines 886-891, called in the runner's thread.
RunnerNotify(w, notification) ==
    /\ pc = "server"
    /\ MayNotify(threads[w], notification)
    /\ ready' = Append(ready, UpdateCall(threads[w].task, notification))
    /\ threads' = [threads EXCEPT ![w].calls = @ + 1,
                                  ![w].state =
                                      IF /\ call.conversion_runner = "run_conversion"
                                         /\ notification.stage = "COMPLETED"
                                      THEN "notified" ELSE "running"]
    /\ UNCHANGED <<callVars, worker_task, workers, stops, tasks, pending, queue,
                   unfinished, http, records, joins>>

\* The runner returns or raises an Exception: run_conversion returns right after
\* its COMPLETED notification and raises before it.
MayEnd(thread, outcome) ==
    IF call.conversion_runner = "run_conversion"
    THEN \/ thread.state = "notified" /\ outcome = "returned"
         \/ thread.state = "running" /\ outcome = "raised"
    ELSE thread.state = "running"

\* The end of asyncio.to_thread's thread, lines 894-896.
RunnerEnd(w, outcome) ==
    /\ pc = "server"
    /\ MayEnd(threads[w], outcome)
    /\ ready' = Append(ready, ResultOfThread(w, outcome))
    /\ threads' = [threads EXCEPT ![w].state = "ended"]
    /\ UNCHANGED <<callVars, worker_task, workers, stops, tasks, pending, queue,
                   unfinished, http, records, joins>>

\* update_progress, lines 845-871, for the call at the head of the loop's queue.
update_progress ==
    /\ pc = "server"
    /\ ready # <<>> /\ Head(ready).kind = "update_progress"
    /\ LET task_id == Head(ready).task_id
           stage == Head(ready).stage
           progress == Max(0, Min(100, Head(ready).percent))
       IN  records' =
               IF task_id \notin tasks THEN records
               ELSE [records EXCEPT
                        ![task_id].progress = progress,
                        ![task_id].log = Append(@, stage),
                        ![task_id].status =
                            IF stage = "COMPLETED" THEN "completed"
                            ELSE IF stage = "FAILED" THEN "failed"
                            ELSE "running",
                        ![task_id].finished_at =
                            IF stage \in {"COMPLETED", "FAILED"} THEN @ + 1 ELSE @]
    /\ ready' = Tail(ready)
    /\ UNCHANGED <<callVars, worker_task, workers, stops, tasks, pending, queue,
                   unfinished, http, joins, threads>>

\* worker, lines 897-930: the handler of the runner's exception and the else
\* branch, on the record of task_id.
Finished(task_id, outcome) ==
    IF outcome = "raised"
    THEN [records EXCEPT ![task_id].status = "failed",
                         ![task_id].error = "error",
                         ![task_id].finished_at = @ + 1,
                         ![task_id].log = Append(@, "FAILED")]
    ELSE [records EXCEPT ![task_id].status = "completed",
                         ![task_id].result = "result",
                         ![task_id].progress = Max(@, 100),
                         ![task_id].finished_at = @ + 1,
                         ![task_id].log = Append(@, "COMPLETED")]

\* queue.task_done() sets the queue's _finished event when no record is
\* unfinished, which wakes every join().
Woken(left) == [k \in 1 .. Len(joins) |-> [joins[k] EXCEPT !.woken = @ \/ left = 0]]

\* worker, lines 894-932 and on to the next await: the result of to_thread
\* reaches the worker, which finishes the record, calls task_done() and goes
\* round the loop, taking the next record or suspending in queue.get().  The
\* result of a worker that was cancelled meanwhile is dropped.
WorkerResult ==
    /\ pc = "server"
    /\ ready # <<>> /\ Head(ready).kind = "result"
    /\ ready' = Tail(ready)
    /\ LET w == Head(ready).worker
           done == Finished(threads[w].task, Head(ready).outcome)
           idle == [threads EXCEPT ![w] = NoThread]
       IN  IF workers[w] # "thread"
           THEN /\ threads' = idle
                /\ UNCHANGED <<workers, records, queue, pending, unfinished, joins>>
           ELSE /\ unfinished' = unfinished - 1
                /\ joins' = Woken(unfinished - 1)
                /\ IF queue = <<>>
                   THEN /\ workers' = [workers EXCEPT ![w] = "get"]
                        /\ records' = done
                        /\ threads' = idle
                        /\ UNCHANGED <<queue, pending>>
                   ELSE LET after == Dequeued(w, done, idle)
                        IN  /\ queue' = after.queue
                            /\ pending' = after.pending
                            /\ records' = after.records
                            /\ workers' = after.workers
                            /\ threads' = after.threads
    /\ UNCHANGED <<callVars, worker_task, stops, tasks, http>>

\* stop_worker, lines 938-942: records are unfinished, the call suspends in
\* queue.join() holding the worker task it read.
stop_worker_join ==
    /\ pc = "server"
    /\ worker_task # NoTask
    /\ unfinished > 0
    /\ Len(joins) + Len(stops) < MaxStops
    /\ joins' = Append(joins, [worker |-> worker_task[1], woken |-> FALSE])
    /\ UNCHANGED <<callVars, worker_task, workers, stops, tasks, pending, queue,
                   unfinished, http, records, threads, ready>>

\* stop_worker, lines 942-946, when queue.join() has returned: cancel the worker
\* task that was read and await it.
JoinResume(k) ==
    /\ pc = "server"
    /\ k \in 1 .. Len(joins)
    /\ joins[k].woken
    /\ joins' = [i \in 1 .. Len(joins) - 1 |-> IF i < k THEN joins[i] ELSE joins[i + 1]]
    /\ IF workers[joins[k].worker] = "done"
       THEN /\ worker_task' = NoTask
            /\ UNCHANGED <<workers, stops>>
       ELSE /\ workers' = [workers EXCEPT ![joins[k].worker] = "cancelling"]
            /\ stops' = Append(stops, joins[k].worker)
            /\ UNCHANGED worker_task
    /\ UNCHANGED <<callVars, tasks, pending, queue, unfinished, http, records,
                   threads, ready>>

Runners == {"run_conversion", "other"}

InitTasks ==
    /\ pc = "server" /\ call \in [conversion_runner : Runners] /\ ret = None
    /\ ServerInit

\* The payloads of the task flow: those the validators accept, of which the
\* flow reads nothing else.
TaskPayloads ==
    {payload \in Payloads :
        PayloadValid(payload) /\ payload.symbol /\ ~payload.footprint /\ ~payload.model}

\* The task flow of a server that is not shut down.
NextTasks ==
    \/ start_worker
    \/ \E payload \in TaskPayloads : enqueue_task_accepted(payload)
    \/ \E w \in 1 .. Len(workers) : WorkerRun(w)
    \/ \E w \in 1 .. Len(workers) : WorkerTake(w)
    \/ \E w \in 1 .. Len(workers), notification \in Notifications :
           RunnerNotify(w, notification)
    \/ \E w \in 1 .. Len(workers), outcome \in {"returned", "raised"} :
           RunnerEnd(w, outcome)
    \/ update_progress
    \/ WorkerResult

SpecTasks == InitTasks /\ [][NextTasks]_vars

\* The task flow with shutdown: stop_worker interleaved with everything else.
NextShutdown ==
    \/ start_worker
    \/ stop_worker
    \/ stop_worker_join
    \/ \E payload \in TaskPayloads : enqueue_task_accepted(payload)
    \/ \E w \in 1 .. Len(workers) : WorkerRun(w)
    \/ \E w \in 1 .. Len(workers) : WorkerTake(w)
    \/ \E w \in 1 .. Len(workers) : WorkerCancelled(w)
    \/ \E k \in 1 .. Len(stops) : StopWorkerResume(k)
    \/ \E k \in 1 .. Len(joins) : JoinResume(k)
    \/ \E w \in 1 .. Len(workers), notification \in Notifications :
           RunnerNotify(w, notification)
    \/ \E w \in 1 .. Len(workers), outcome \in {"returned", "raised"} :
           RunnerEnd(w, outcome)
    \/ update_progress
    \/ WorkerResult

SpecShutdown == InitTasks /\ [][NextShutdown]_vars

----------------------------------------------------------------------------
(***************************************************************************)
(* Calls of the geometry kernel.                                           *)
(***************************************************************************)
HoleLengths == {Blank, PyNone} \cup {Num(n) : n \in 0 .. MaxHole}

DrillCalls ==
    [fn : {"drill_to_ki"}, hole_radius : 0 .. MaxHole, hole_length : HoleLengths,
     pad_height : 0 .. MaxPad, pad_width : 0 .. MaxPad]

InitDrill == pc = "call" /\ call \in DrillCalls /\ ret = None /\ ServerInit

CallDrillToKi ==
    /\ pc = "call" /\ call.fn = "drill_to_ki"
    /\ ret' = drill_to_ki(call.hole_radius, call.hole_length, call.pad_height, call.pad_width)
    /\ pc' = "return"
    /\ UNCHANGED <<call, serverVars>>

SpecDrill == InitDrill /\ [][CallDrillToKi]_vars

Dims == {Blank, PyNone, NaN} \cup {Num(n) : n \in -MaxDim .. MaxDim}

InitFp == pc = "call" /\ call \in [fn : {"fp_to_ki"}, dim : Dims] /\ ret = None /\ ServerInit

CallFpToKi ==
    /\ pc = "call" /\ call.fn = "fp_to_ki"
    /\ ret' = fp_to_ki(call.dim)
    /\ pc' = "return"
    /\ UNCHANGED <<call, serverVars>>

SpecFp == InitFp /\ [][CallFpToKi]_vars

Rotations == {NaN} \cup {Num(n) : n \in 0 .. 360}

InitAngle ==
    pc = "call" /\ call \in [fn : {"angle_to_ki"}, rotation : Rotations] /\ ret = None /\ ServerInit

CallAngleToKi ==
    /\ pc = "call" /\ call.fn = "angle_to_ki"
    /\ ret' = angle_to_ki(call.rotation)
    /\ pc' = "return"
    /\ UNCHANGED <<call, serverVars>>

SpecAngle == InitAngle /\ [][CallAngleToKi]_vars

InitArc ==
    /\ pc = "call"
    /\ call \in [fn : {"compute_arc"}, raw_extent : RawExtents, sweep_flag : BOOLEAN]
    /\ ret = None
    /\ ServerInit

CallComputeArc ==
    /\ pc = "call" /\ call.fn = "compute_arc"
    /\ ret' = compute_arc_extent(call.raw_extent, call.sweep_flag)
    /\ pc' = "return"
    /\ UNCHANGED <<call, serverVars>>

SpecArc == InitArc /\ [][CallComputeArc]_vars

\* The vectors u and v of compute_arc with components -1, 0, 1: the angle
\* between two of them is a multiple of 45 degrees.
ArcVectors == {-1, 0, 1} \X {-1, 0, 1}

InitArcVectors ==
    /\ pc = "call"
    /\ call \in [fn : {"compute_arc"}, u : ArcVectors, v : ArcVectors, sweep_flag : BOOLEAN]
    /\ ret = None
    /\ ServerInit

CallComputeArcFromVectors ==
    /\ pc = "call" /\ call.fn = "compute_arc"
    /\ ret' = compute_arc_from_vectors(call.u, call.v, call.sweep_flag)
    /\ pc' = "return"
    /\ UNCHANGED <<call, serverVars>>

SpecArcVectors == InitArcVectors /\ [][CallComputeArcFromVectors]_vars

----------------------------------------------------------------------------
(***************************************************************************)
(* Calls of the shape fitter.                                              *)
(***************************************************************************)
\* The rectangle with the corners (x0, y0) and (x1, y1), counter-clockwise.
Rect(x0, y0, x1, y1) == <<<<x0, y0>>, <<x1, y0>>, <<x1, y1>>, <<x0, y1>>>>
Reversed(polygon) == [i \in 1 .. Len(polygon) |-> polygon[Len(polygon) + 1 - i]]
\* The polygon without its k-th vertex.
Without(polygon, k) ==
    [i \in 1 .. Len(polygon) - 1 |-> IF i < k THEN polygon[i] ELSE polygon[i + 1]]

Rects(C) == {Rect(x0, y0, x1, y1) : <<x0, y0, x1, y1>> \in
                {q \in C \X C \X C \X C : q[1] < q[3] /\ q[2] < q[4]}}
CornerTriangles(C) == {Without(r, k) : r \in Rects(C), k \in 1 .. 4}
BothWays(S) == S \cup {Reversed(polygon) : polygon \in S}

Lattice == (0 .. MaxCoord) \X (0 .. MaxCoord)
TestPoints == (-1 .. MaxCoord + 1) \X (-1 .. MaxCoord + 1)
Triangles == {<<a, b, c>> : <<a, b, c>> \in Lattice \X Lattice \X Lattice}
Polygons == Triangles \cup BothWays(Rects(0 .. MaxCoord))

InitPolygon ==
    /\ pc = "call"
    /\ call \in [fn : {"is_point_in_polygon"}, point : TestPoints, polygon : Polygons]
    /\ ret = None
    /\ ServerInit

CallIsPointInPolygon ==
    /\ pc = "call" /\ call.fn = "is_point_in_polygon"
    /\ ret' = is_point_in_polygon(<<Z(call.point[1]), Z(call.point[2])>>, call.polygon)
    /\ pc' = "return"
    /\ UNCHANGED <<call, serverVars>>

SpecPolygon == InitPolygon /\ [][CallIsPointInPolygon]_vars

BoxCoords == {3 * k : k \in 0 .. MaxBox}
PadOutlines == BothWays(Rects(BoxCoords) \cup CornerTriangles(BoxCoords))
\* The square [(0,0),(10,0),(10,10),(0,10)] and the radius 1: a side of 200 steps
\* and a radius of 20 steps, half of which is 10 steps.
Square10 == Rect(0, 0, 200 * Step, 200 * Step)
Radius1Half == 10 * Step

InitCenter ==
    /\ pc = "call"
    /\ \/ call \in [fn : {"find_circle_center_in_polygon"}, polygon : PadOutlines,
                    half : 1 .. MaxHalf]
       \/ call = [fn |-> "find_circle_center_in_polygon", polygon |-> Square10,
                  half |-> Radius1Half]
    /\ ret = None
    /\ ServerInit

CallFindCircleCenter ==
    /\ pc = "call" /\ call.fn = "find_circle_center_in_polygon"
    /\ ret' = find_circle_center_in_polygon(call.polygon, call.half)
    /\ pc' = "return"
    /\ UNCHANGED <<call, serverVars>>

SpecCenter == InitCenter /\ [][CallFindCircleCenter]_vars

----------------------------------------------------------------------------
(***************************************************************************)
(* Claims about the geometry kernel.                                       *)
(***************************************************************************)

\* C4 (as stated): with hole_radius > 0 and a present, positive hole_length,
\* drill_to_ki returns the oval (hole_length, 2*hole_radius) when
\* pad_height - maxSpan is strictly larger than pad_width - maxSpan, and the
\* oval (2*hole_radius, hole_length) otherwise.
C4_AsStated ==
    (pc = "return" /\ call.hole_radius > 0 /\ call.hole_length.t = "num" /\ call.hole_length.v > 0)
    => LET maxSpan == Max(2 * call.hole_radius, call.hole_length.v)
       IN  IF call.pad_height - maxSpan > call.pad_width - maxSpan
           THEN ret = DrillOval(call.hole_length.v, 2 * call.hole_radius)
           ELSE ret = DrillOval(2 * call.hole_radius, call.hole_length.v)

\* C4 (amended): with hole_radius > 0 and a present, positive hole_length,
\* drill_to_ki returns the oval (2*hole_radius, hole_length) when
\* pad_height - maxSpan is at least pad_width - maxSpan, and the oval
\* (hole_length, 2*hole_radius) when it is strictly smaller; so
\* drill_to_ki(1, 3, pad_height=4, pad_width=2) has the dimensions (2, 3).
C4_DrillOrientation ==
    /\ (pc = "return" /\ call.hole_radius > 0 /\ call.hole_length.t = "num"
            /\ call.hole_length.v > 0)
       => LET maxSpan == Max(2 * call.hole_radius, call.hole_length.v)
          IN  IF call.pad_height - maxSpan >= call.pad_width - maxSpan
              THEN ret = DrillOval(2 * call.hole_radius, call.hole_length.v)
              ELSE ret = DrillOval(call.hole_length.v, 2 * call.hole_radius)
    /\ (pc = "return" /\ call.hole_radius = 1 /\ call.hole_length = Num(3)
            /\ call.pad_height = 4 /\ call.pad_width = 2)
       => ret = DrillOval(2, 3)

\* C4 witness: the call drill_to_ki(1, 3, pad_height=4, pad_width=2) has returned.
C4_Witness ==
    /\ pc = "return" /\ call.hole_radius = 1 /\ call.hole_length = Num(3)
    /\ call.pad_height = 4 /\ call.pad_width = 2
    /\ ret = DrillOval(2, 3)

\* C5 (as stated): for every numeric x, fp_to_ki(2*x) = 2 * fp_to_ki(x), and
\* blank, None and NaN are returned unchanged.
C5_AsStated ==
    pc = "return"
    => IF call.dim.t = "num"
       THEN fp_to_ki(Num(2 * call.dim.v)).v = 2 * ret.v
       ELSE ret = call.dim

\* C5 (amended): for every numeric x, fp_to_ki(2*x) and 2 * fp_to_ki(x) differ
\* by at most one hundredth of a millimetre (the rounding to 2 decimals), and
\* are equal when x is a multiple of 5 vendor units (1.27 mm, where nothing is
\* rounded); blank, None and NaN are returned unchanged.
C5_NearLinear ==
    pc = "return"
    => IF call.dim.t = "num"
       THEN /\ ret.t = "num"
            /\ Abs(fp_to_ki(Num(2 * call.dim.v)).v - 2 * ret.v) <= 1
            /\ (call.dim.v % 5 = 0 => /\ ret.v * 5 = 127 * call.dim.v
                                      /\ fp_to_ki(Num(2 * call.dim.v)).v = 2 * ret.v)
       ELSE ret = call.dim

\* C5 witness: fp_to_ki(1) has returned 0.25 mm while fp_to_ki(2) is 0.51 mm.
C5_Witness ==
    /\ pc = "return" /\ call.dim = Num(1) /\ ret = Num(25)
    /\ fp_to_ki(Num(2)) = Num(51)

\* C6 (as stated): for every numeric rotation in [0, 360], angle_to_ki(rotation)
\* is >= -180 and < 180.
C6_AsStated ==
    (pc = "return" /\ call.rotation.t = "num") => (ret.v >= -180 /\ ret.v < 180)

\* C6 (amended): for every numeric rotation in [0, 360], angle_to_ki(rotation)
\* lies in the half-open range (-180, 180]: it is > -180 and <= 180, and 180 is
\* returned as 180.
C6_AngleRange ==
    /\ (pc = "return" /\ call.rotation.t = "num")
       => (ret.t = "num" /\ ret.v > -180 /\ ret.v <= 180)
    /\ (pc = "return" /\ call.rotation = Num(180)) => ret = Num(180)

\* C6 witness: angle_to_ki(180) has returned 180.
C6_Witness == pc = "return" /\ call.rotation = Num(180) /\ ret = Num(180)

\* C7 (as stated): the extent adjusted to the sweep direction is non-negative
\* when sweep_flag is true and non-positive when it is false, and the extent
\* returned has the magnitude |adjusted| mod 360 and the sign of the adjusted
\* extent.
C7_AsStated ==
    pc = "return"
    => /\ Abs(ret.angle_extent) = Abs(ret.adjusted) % 360
       /\ Abs(ret.angle_extent) < 360
       /\ (ret.adjusted > 0 => ret.angle_extent >= 0)
       /\ (ret.adjusted < 0 => ret.angle_extent <= 0)

\* C7 (amended): the extent returned has the magnitude |adjusted| mod 360, which
\* lies in [0, 360), and the sign opposite to the adjusted extent's: it is
\* negative or zero when the adjusted extent is >= 0 and positive when the
\* adjusted extent is < 0.  The adjusted extent is non-negative when sweep_flag
\* is true; it is non-positive when sweep_flag is false except in the degenerate
\* case n = 0, where it is 719 - 360 = 359.
C7_ExtentSignFlipped ==
    pc = "return"
    => /\ Abs(ret.angle_extent) = Abs(ret.adjusted) % 360
       /\ Abs(ret.angle_extent) < 360
       /\ (ret.adjusted >= 0 => ret.angle_extent = -(ret.adjusted % 360))
       /\ (ret.adjusted < 0 => ret.angle_extent = (-ret.adjusted) % 360)
       /\ (call.sweep_flag => ret.adjusted >= 0)
       /\ (~call.sweep_flag /\ call.raw_extent # DegenerateExtent => ret.adjusted <= 0)
       /\ (~call.sweep_flag /\ call.raw_extent = DegenerateExtent => ret.adjusted = 359)

\* C7 witness: a raw extent of -90 with sweep_flag true is adjusted to 270 and
\* returned as -270.
C7_Witness ==
    /\ pc = "return" /\ call.raw_extent = -90 /\ call.sweep_flag
    /\ ret.adjusted = 270 /\ ret.angle_extent = -270

----------------------------------------------------------------------------
(***************************************************************************)
(* Claims about the shape fitter.                                          *)
(***************************************************************************)
Cross(a, b, p) == (b[1] - a[1]) * (p[2] - a[2]) - (b[2] - a[2]) * (p[1] - a[1])
Dot(a, b, p) == (b[1] - a[1]) * (p[1] - a[1]) + (b[2] - a[2]) * (p[2] - a[2])
Next1(polygon, i) == polygon[(i % Len(polygon)) + 1]

\* p = a + t * (b - a) for a t of [0, 1].
OnEdge(a, b, p) ==
    IF a = b THEN p = a
    ELSE Cross(a, b, p) = 0 /\ 0 <= Dot(a, b, p) /\ Dot(a, b, p) <= Dot(a, b, b)

OnBoundary(p, polygon) ==
    \E i \in 1 .. Len(polygon) : OnEdge(polygon[i], Next1(polygon, i), p)

\* Every turn of the polygon is a strict turn to the same side.
Convex(polygon) ==
    LET turn(i) == Cross(polygon[i], Next1(polygon, i), Next1(polygon, i + 1))
    IN  \/ \A i \in 1 .. Len(polygon) : turn(i) > 0
        \/ \A i \in 1 .. Len(polygon) : turn(i) < 0

\* p is strictly on the inner side of every edge.
StrictlyInside(p, polygon) ==
    LET side(i) == Cross(polygon[i], Next1(polygon, i), p)
    IN  \/ \A i \in 1 .. Len(polygon) : side(i) > 0
        \/ \A i \in 1 .. Len(polygon) : side(i) < 0

OutsideBox(p, polygon) ==
    LET b == get_bounds_of_polygon(polygon)
    IN  p[1] < b.min_x \/ p[1] > b.max_x \/ p[2] < b.min_y \/ p[2] > b.max_y

\* C9: is_point_in_polygon returns true for every point on an edge or a vertex
\* of the polygon, true for every point strictly inside a convex polygon of
\* either orientation, and false for every point outside the polygon's
\* bounding box.
C9_PointInPolygon ==
    pc = "return"
    => /\ OnBoundary(call.point, call.polygon) => ret = TRUE
       /\ (Convex(call.polygon) /\ StrictlyInside(call.point, call.polygon)) => ret = TRUE
       /\ OutsideBox(call.point, call.polygon) => ret = FALSE

\* C9 witness: the call returned true for the centre (1, 1) of a clockwise
\* square, which is strictly inside it.
C9_Witness ==
    /\ pc = "return" /\ call.point = <<1, 1>>
    /\ call.polygon = Reversed(Rect(0, 0, 2, 2))
    /\ Convex(call.polygon) /\ StrictlyInside(call.point, call.polygon)
    /\ ret = TRUE

\* The points of the bounding box that are whole steps away from its minimum corner.
GridOf(polygon) ==
    LET b == get_bounds_of_polygon(polygon)
    IN  {x \in b.min_x .. b.max_x : (x - b.min_x) % Step = 0}
            \X {y \in b.min_y .. b.max_y : (y - b.min_y) % Step = 0}

Earlier(g, h) == g[1] < h[1] \/ (g[1] = h[1] /\ g[2] < h[2])

Fits(g, half, polygon) == is_circle_in_polygon(<<Z(g[1]), Z(g[2])>>, half, polygon)

\* C8: find_circle_center_in_polygon returns the first point of the bounding
\* box's grid, in the order smallest x then smallest y, at which
\* is_circle_in_polygon succeeds, and None when it succeeds at no grid point;
\* for the square [(0,0),(10,0),(10,10),(0,10)] and radius 1 it returns (1, 1).
C8_FirstGridHit ==
    pc = "return"
    => /\ IF ret = NoCenter
          THEN \A g \in GridOf(call.polygon) : ~Fits(g, call.half, call.polygon)
          ELSE /\ ret \in GridOf(call.polygon)
               /\ Fits(ret, call.half, call.polygon)
               /\ \A g \in {h \in GridOf(call.polygon) : Earlier(h, ret)} :
                      ~Fits(g, call.half, call.polygon)
       /\ (call.polygon = Square10 /\ call.half = Radius1Half)
              => ret = <<2 * Radius1Half, 2 * Radius1Half>>

\* C8 witness: for a triangle whose fitting grid points differ in x and in y,
\* the call returned the one with the smallest x, not the one with the smallest y.
C8_Witness ==
    /\ pc = "return" /\ ret # NoCenter
    /\ \E g \in GridOf(call.polygon) :
          /\ Fits(g, call.half, call.polygon)
          /\ g[2] < ret[2] /\ g[1] > ret[1]

----------------------------------------------------------------------------
(***************************************************************************)
(* LibraryText: the symbol library readers of api/server.py.               *)
(*                                                                         *)
(* A library file is a sequence of lines.  A line is a record [t, v, d]:   *)
(* t is what the line is, v the quoted value it carries and d its count of *)
(* "(" minus its count of ")".                                             *)
(*   "symbol"   a line that starts, after leading blanks, with "(symbol "  *)
(*   "lcsc"     (property "LCSC Part" "v" ...                              *)
(*   "fp"       (property "Footprint" "v" ...                              *)
(*   "DEF"      DEF v ...                                                  *)
(*   "F2"       F2 "v" ...                                                 *)
(*   "F6"       F6 "v" ... "LCSC Part"                                     *)
(*   "ENDDEF"   ENDDEF                                                     *)
(*   " ENDDEF " ENDDEF with blanks before and after it                     *)
(*   "ENDDEF x" ENDDEF followed by other text                              *)
(*   " DEF"     blanks, then DEF v ...                                     *)
(*   "#"        #                                                          *)
(*   "#name"    # v                                                        *)
(*   "other"    any other line                                             *)
(* A block is the sequence of the positions of its lines in the file; its  *)
(* text is those lines joined by "\n".                                     *)
(***************************************************************************)
Line(t, v, d) == [t |-> t, v |-> v, d |-> d]

MaxLines == 4       \* _iter_symbol_blocks_v6 runs over files of up to MaxLines lines

\* line.lstrip().startswith("(symbol "), line 436.
StartsSymbol(line) == line.t = "symbol"

\* line.count("(") - line.count(")"), lines 438 and 445.
ParenDelta(line) == line.d

\* depth <= 0, lines 440 and 446.
BlockCloses_zero(depth) == depth = 0

BlockCloses(depth) == depth <= 0

\* The loop of _iter_symbol_blocks_v6 from line i on, lines 434-448.
RECURSIVE IterV6(_, _, _, _, _, _)
IterV6(content, i, in_block, depth, block_lines, blocks) ==
    IF i > Len(content) THEN blocks
    ELSE IF ~in_block
    THEN IF StartsSymbol(content[i])
         THEN LET opened == ParenDelta(content[i])
              IN  IF BlockCloses(opened)
                  THEN IterV6(content, i + 1, FALSE, opened, <<i>>, Append(blocks, <<i>>))
                  ELSE IterV6(content, i + 1, TRUE, opened, <<i>>, blocks)
         ELSE IterV6(content, i + 1, FALSE, depth, block_lines, blocks)
    ELSE LET lines == Append(block_lines, i)
             deeper == depth + ParenDelta(content[i])
         IN  IF BlockCloses(deeper)
             THEN IterV6(content, i + 1, FALSE, deeper, lines, Append(blocks, lines))
             ELSE IterV6(content, i + 1, TRUE, deeper, lines, blocks)

\* _iter_symbol_blocks_v6, lines 429-449.
iter_symbol_blocks_v6(content) == IterV6(content, 1, FALSE, 0, <<>>, <<>>)

\* Files for _iter_symbol_blocks_v6: every sequence of up to MaxLines lines, each
\* a "(symbol " line or another line, with a count of "(" minus ")" of -2 .. 2.
RECURSIVE SeqsUpTo(_, _)
SeqsUpTo(S, n) ==
    IF n = 0 THEN {<<>>}
    ELSE LET shorter == SeqsUpTo(S, n - 1)
         IN  shorter \cup {Append(q, e) : q \in {p \in shorter : Len(p) = n - 1}, e \in S}

ParenLines == {Line(t, "", d) : t \in {"symbol", "other"}, d \in {-2, -1, 0, 1, 2}}

InitBlocks ==
    /\ pc = "call"
    /\ call \in [fn : {"_iter_symbol_blocks_v6"}, content : SeqsUpTo(ParenLines, MaxLines)]
    /\ ret = None
    /\ ServerInit

CallIterSymbolBlocksV6 ==
    /\ pc = "call" /\ call.fn = "_iter_symbol_blocks_v6"
    /\ ret' = iter_symbol_blocks_v6(call.content)
    /\ pc' = "return"
    /\ UNCHANGED <<call, serverVars>>

SpecBlocks == InitBlocks /\ [][CallIterSymbolBlocksV6]_vars

----------------------------------------------------------------------------
(***************************************************************************)
(* LibraryText: the component lookups of api/server.py.                    *)
(***************************************************************************)
Str(s) == [t |-> "str", v |-> s]
NoRef == [t |-> "None", v |-> ""]      \* the None in place of a footprint reference
NoMatch == <<>>                        \* the None _find_component_block returns
NoFile == <<Line("no file", "", 0)>>   \* no symbol library at the path

\* str.strip(), str.upper() and str.split(":")[-1] on the strings of the model.
Strip(s) == IF s = " " THEN "" ELSE s
Upper(s) == IF s = "c1" THEN "C1" ELSE s
AfterLastColon(s) == IF s = "lib:A" THEN "A" ELSE s

\* The footprints for which <library>.pretty/<name>.kicad_mod is a file.
Pretty == {"A"}

\* line.startswith("DEF "), line 458: the line is not trimmed.
StartsDef(line) == line.t = "DEF"

\* line.strip() == "ENDDEF", line 463.
IsEndDef_exact(line) == line.t = "ENDDEF"

IsEndDef(line) == line.t \in {"ENDDEF", " ENDDEF "}

\* The loop of _iter_symbol_blocks_v5 from line i on, lines 456-465.
RECURSIVE IterV5(_, _, _, _, _)
IterV5(content, i, in_block, block_lines, blocks) ==
    IF i > Len(content) THEN blocks
    ELSE IF ~in_block
    THEN IF StartsDef(content[i])
         THEN IterV5(content, i + 1, TRUE, <<i>>, blocks)
         ELSE IterV5(content, i + 1, FALSE, block_lines, blocks)
    ELSE LET lines == Append(block_lines, i)
         IN  IF IsEndDef(content[i])
             THEN IterV5(content, i + 1, FALSE, lines, Append(blocks, lines))
             ELSE IterV5(content, i + 1, TRUE, lines, blocks)

\* _iter_symbol_blocks_v5, lines 452-466.
iter_symbol_blocks_v5(content) == IterV5(content, 1, FALSE, <<>>, <<>>)

\* Files for _iter_symbol_blocks_v5: every sequence of up to MaxLines lines of
\* the flat grammar.
DefLines == {Line(t, "", 0) : t \in {"DEF", " DEF", "ENDDEF", " ENDDEF ", "ENDDEF x", "other"}}

InitBlocksV5 ==
    /\ pc = "call"
    /\ call \in [fn : {"_iter_symbol_blocks_v5"}, content : SeqsUpTo(DefLines, MaxLines)]
    /\ ret = None
    /\ ServerInit

CallIterSymbolBlocksV5 ==
    /\ pc = "call" /\ call.fn = "_iter_symbol_blocks_v5"
    /\ ret' = iter_symbol_blocks_v5(call.content)
    /\ pc' = "return"
    /\ UNCHANGED <<call, serverVars>>

SpecBlocksV5 == InitBlocksV5 /\ [][CallIterSymbolBlocksV5]_vars

\* blocks, lines 474, 554 and 572.
BlocksOf(content, suffix) ==
    IF suffix = ".kicad_sym" THEN iter_symbol_blocks_v6(content)
    ELSE iter_symbol_blocks_v5(content)

\* The line declares an LCSC part: the patterns of lines 479-482 and 555-559
\* (nested grammar), 488-491 and 573-577 (flat grammar) without the ID.
IsLcscLine(line, suffix) == line.t = (IF suffix = ".kicad_sym" THEN "lcsc" ELSE "F6")

\* The footprint patterns: "([^"]+)" of lines 483-486 and 563-567 wants a
\* non-empty value, "([^"]*)" of lines 492 and 581 takes an empty one.
IsFootprintLine(line, suffix) ==
    IF suffix = ".kicad_sym" THEN line.t = "fp" /\ line.v # "" ELSE line.t = "F2"

\* footprint_match and footprint_ref of a block, lines 497-498, 563-568, 581-582.
FootprintRefOf(content, block, suffix) ==
    LET at == {k \in 1 .. Len(block) : IsFootprintLine(content[block[k]], suffix)}
    IN  IF at = {} THEN NoRef ELSE Str(Strip(content[block[SetMin(at)]].v))

\* lcsc_pattern.search(block), line 495: case is ignored.
LcscPatternFound(content, block, lcsc, suffix) ==
    \E k \in 1 .. Len(block) :
        /\ IsLcscLine(content[block[k]], suffix)
        /\ Upper(content[block[k]].v) = Upper(lcsc)

\* _find_component_block, lines 469-500.
find_component_block(content, lcsc_id, suffix) ==
    LET lcsc == Strip(lcsc_id)
        blocks == BlocksOf(content, suffix)
        found == {j \in 1 .. Len(blocks) : LcscPatternFound(content, blocks[j], lcsc, suffix)}
    IN  IF lcsc = "" THEN NoMatch
        ELSE IF blocks = <<>> THEN NoMatch
        ELSE IF found = {} THEN NoMatch
        ELSE <<blocks[SetMin(found)], FootprintRefOf(content, blocks[SetMin(found)], suffix)>>

\* ComponentCheckResponse, lines 520, 529, 543-548 and 606, 621, 633-638.  The
\* model paths are read from the footprint file and are left out.
ComponentCheckResponse(symbol_path, footprint_path, messages) ==
    [symbol_path |-> symbol_path, footprint_path |-> footprint_path, messages |-> messages]

\* footprint_path if footprint_path and footprint_path.is_file() else None.
ExistingFootprint(footprint_name) ==
    IF footprint_name # "" /\ footprint_name \in Pretty THEN Str(footprint_name) ELSE NoRef

\* _check_component_in_library, lines 503-548.
check_component_in_library(content, suffix, lcsc_id) ==
    IF content = NoFile
    THEN ComponentCheckResponse(None, NoRef, <<"Symbol library not found.">>)
    ELSE LET match == find_component_block(content, lcsc_id, suffix)
         IN  IF match = NoMatch
             THEN ComponentCheckResponse(None, NoRef, <<"Component not found in library.">>)
             ELSE LET footprint_ref == match[2]
                      footprint_name ==
                          IF footprint_ref # NoRef /\ footprint_ref.v # ""
                          THEN Strip(AfterLastColon(footprint_ref.v)) ELSE ""
                  IN  ComponentCheckResponse(suffix, ExistingFootprint(footprint_name), <<>>)

\* The loop of _index_symbols_by_lcsc from block j on, lines 554-570 and 572-583:
\* the first LCSC line of a block is its key, a later block overwrites an
\* earlier one under the same key.
RECURSIVE IndexFrom(_, _, _, _, _)
IndexFrom(content, suffix, blocks, j, mapping) ==
    IF j > Len(blocks) THEN mapping
    ELSE LET block == blocks[j]
             at == {k \in 1 .. Len(block) : IsLcscLine(content[block[k]], suffix)
                                             /\ content[block[k]].v # ""}
         IN  IF at = {} THEN IndexFrom(content, suffix, blocks, j + 1, mapping)
             ELSE LET lcsc_id == Upper(Strip(content[block[SetMin(at)]].v))
                      footprint_ref == FootprintRefOf(content, block, suffix)
                  IN  IndexFrom(content, suffix, blocks, j + 1,
                          [id \in DOMAIN mapping \cup {lcsc_id} |->
                              IF id = lcsc_id THEN footprint_ref ELSE mapping[id]])

\* _index_symbols_by_lcsc, lines 551-584.
index_symbols_by_lcsc(content, suffix) ==
    IndexFrom(content, suffix, BlocksOf(content, suffix), 1, <<>>)

\* The result _check_components_in_library stores for one ID, lines 605-606 and 618-638.
BatchResult(content, suffix, index, lcsc_id) ==
    IF content = NoFile
    THEN ComponentCheckResponse(None, NoRef, <<"Symbol library not found.">>)
    ELSE LET footprint_ref == IF lcsc_id \in DOMAIN index THEN index[lcsc_id] ELSE NoRef
         IN  IF footprint_ref = NoRef \/ footprint_ref.v = ""
             THEN ComponentCheckResponse(None, NoRef, <<"Component not found in library.">>)
             ELSE ComponentCheckResponse(suffix,
                      ExistingFootprint(Strip(AfterLastColon(footprint_ref.v))), <<>>)

\* _check_components_in_library, lines 587-639: results, a dict from the requested IDs.
check_components_in_library(content, suffix, lcsc_ids) ==
    LET index == IF content = NoFile THEN <<>> ELSE index_symbols_by_lcsc(content, suffix)
    IN  [id \in {lcsc_ids[k] : k \in 1 .. Len(lcsc_ids)} |->
            BatchResult(content, suffix, index, id)]

MaxBlocks == 2      \* libraries of the lookups hold up to MaxBlocks symbol blocks

\* The lines a block of the library may hold between its opening and its closing
\* line, and the blocks built from up to two of them.
PropertyLines(suffix) ==
    IF suffix = ".kicad_sym"
    THEN {Line("lcsc", v, 0) : v \in {"C1", "c1", "C2"}}
            \cup {Line("fp", v, 0) : v \in {"lib:A", " ", ""}}
    ELSE {Line("F6", v, 0) : v \in {"C1", "c1", "C2"}}
            \cup {Line("F2", v, 0) : v \in {"lib:A", " ", ""}}

SymbolBlocks(suffix) ==
    {(IF suffix = ".kicad_sym" THEN <<Line("symbol", "", 1)>> ELSE <<Line("DEF", "", 0)>>)
        \o props
        \o (IF suffix = ".kicad_sym" THEN <<Line("other", "", -1)>> ELSE <<Line("ENDDEF", "", 0)>>)
     : props \in SeqsUpTo(PropertyLines(suffix), 2)}

RECURSIVE Flatten(_)
Flatten(qs) == IF qs = <<>> THEN <<>> ELSE Head(qs) \o Flatten(Tail(qs))

Libraries(suffix) ==
    {NoFile} \cup {Flatten(bs) : bs \in SeqsUpTo(SymbolBlocks(suffix), MaxBlocks)}

Suffixes == {".kicad_sym", ".lib"}

LookupCalls ==
    UNION {[fn : {"_check_component_in_library"}, content : Libraries(suffix),
            suffix : {suffix}, lcsc_id : {"C1", "C2"}]
           \cup [fn : {"_check_components_in_library"}, content : Libraries(suffix),
                 suffix : {suffix}, lcsc_ids : {<<"C1">>, <<"C2", "C1">>}]
           : suffix \in Suffixes}

InitLookup == pc = "call" /\ call \in LookupCalls /\ ret = None /\ ServerInit

CallCheckComponent ==
    /\ pc = "call" /\ call.fn = "_check_component_in_library"
    /\ ret' = check_component_in_library(call.content, call.suffix, call.lcsc_id)
    /\ pc' = "return"
    /\ UNCHANGED <<call, serverVars>>

CallCheckComponents ==
    /\ pc = "call" /\ call.fn = "_check_components_in_library"
    /\ ret' = check_components_in_library(call.content, call.suffix, call.lcsc_ids)
    /\ pc' = "return"
    /\ UNCHANGED <<call, serverVars>>

SpecLookup == InitLookup /\ [][CallCheckComponent \/ CallCheckComponents]_vars

----------------------------------------------------------------------------
(***************************************************************************)
(* LibraryText: delete_component_in_symbol_lib of __main__.py.             *)
(*                                                                         *)
(* The pattern is                                                          *)
(*   #\n# {component_name}\n#\n.*?F6 "{component_id}".*?ENDDEF\n           *)
(* with re.DOTALL.  On a file of whole lines it matches from a line "#"    *)
(* that is followed by the lines "# name" and "#", through the first later *)
(* line that holds F6 "id", to the first ENDDEF line after that one.       *)
(***************************************************************************)
\* #\n# {component_name}\n#\n matches at the lines i, i + 1, i + 2.
HeaderAt(content, i, component_name) ==
    /\ i + 2 <= Len(content)
    /\ content[i].t = "#"
    /\ content[i + 1] = Line("#name", component_name, 0)
    /\ content[i + 2].t = "#"

\* The line at which a match that starts at line i ends, 0 when there is none:
\* .*? stops at the first F6 "{component_id}", the second .*? at the first ENDDEF\n.
MatchEnd(content, i, component_id, component_name) ==
    IF ~HeaderAt(content, i, component_name) THEN 0
    ELSE LET ids == {k \in i + 3 .. Len(content) : content[k] = Line("F6", component_id, 0)}
         IN  IF ids = {} THEN 0
             ELSE LET ends == {m \in SetMin(ids) + 1 .. Len(content) : content[m].t = "ENDDEF"}
                  IN  IF ends = {} THEN 0 ELSE SetMin(ends)

\* re.sub(pattern, "", current_lib) from line i on, lines 221-226: the matches
\* are taken from left to right and do not overlap.
RECURSIVE SubFrom(_, _, _, _)
SubFrom(content, i, component_id, component_name) ==
    IF i > Len(content) THEN <<>>
    ELSE LET end == MatchEnd(content, i, component_id, component_name)
         IN  IF end # 0 THEN SubFrom(content, end + 1, component_id, component_name)
             ELSE <<content[i]>> \o SubFrom(content, i + 1, component_id, component_name)

\* delete_component_in_symbol_lib, lines 216-229: the content written back.
delete_component_in_symbol_lib(current_lib, component_id, component_name) ==
    SubFrom(current_lib, 1, component_id, component_name)

MaxDefs == 3        \* flat libraries of delete_component_in_symbol_lib hold up to MaxDefs blocks

\* A block of the flat grammar with its name-comment header, and the library of
\* a sequence of [name, id] pairs after the two lines a new library starts with
\* (__main__.py line 207).
DefBlock(symbol) ==
    <<Line("#", "", 0), Line("#name", symbol.name, 0), Line("#", "", 0),
      Line("DEF", symbol.name, 0), Line("F6", symbol.id, 0), Line("ENDDEF", "", 0)>>

SymbolLib(symbols) ==
    <<Line("other", "EESchema-LIBRARY Version 2.4", 0), Line("other", "#encoding utf-8", 0)>>
        \o Flatten([k \in 1 .. Len(symbols) |-> DefBlock(symbols[k])])

Symbols == [name : {"A", "B"}, id : {"C1", "C2"}]

InitDelete ==
    /\ pc = "call"
    /\ call \in [fn : {"delete_component_in_symbol_lib"},
                 symbols : SeqsUpTo(Symbols, MaxDefs),
                 component_id : {"C1", "C2"}, component_name : {"A", "B"}]
    /\ ret = None
    /\ ServerInit

CallDeleteComponent ==
    /\ pc = "call" /\ call.fn = "delete_component_in_symbol_lib"
    /\ ret' = delete_component_in_symbol_lib(SymbolLib(call.symbols), call.component_id,
                                             call.component_name)
    /\ pc' = "return"
    /\ UNCHANGED <<call, serverVars>>

SpecDelete == InitDelete /\ [][CallDeleteComponent]_vars

----------------------------------------------------------------------------
(***************************************************************************)
(* Claims about the symbol library readers.                                *)
(***************************************************************************)
\* The count of "(" minus ")" over the lines s .. e of the file.
RECURSIVE ParenSum(_, _, _)
ParenSum(content, s, e) ==
    IF e < s THEN 0 ELSE ParenSum(content, s, e - 1) + ParenDelta(content[e])

Last(q) == q[Len(q)]

\* The blocks are non-empty contiguous runs of lines, disjoint and in file order.
BlocksAreRuns(content, blocks) ==
    /\ \A j \in 1 .. Len(blocks) :
          /\ Len(blocks[j]) >= 1
          /\ blocks[j][1] \in 1 .. Len(content)
          /\ \A k \in 1 .. Len(blocks[j]) : blocks[j][k] = blocks[j][1] + (k - 1)
          /\ Last(blocks[j]) <= Len(content)
    /\ \A j \in 1 .. Len(blocks) - 1 : Last(blocks[j]) < blocks[j + 1][1]

\* Line i lies in one of the blocks.
InSomeBlock(i, blocks) ==
    \E j \in 1 .. Len(blocks) : blocks[j][1] <= i /\ i <= Last(blocks[j])

\* The "(symbol " lines outside every block: the first of them, if any, opened a
\* block that no later line closed, and no block lies after it.
OpenBlockIsLast(content, blocks, Closed(_)) ==
    LET outside == {i \in 1 .. Len(content) :
                       StartsSymbol(content[i]) /\ ~InSomeBlock(i, blocks)}
    IN  outside # {}
        => LET s == CHOOSE i \in outside : \A k \in outside : i <= k
           IN  /\ \A e \in s .. Len(content) : ~Closed(ParenSum(content, s, e))
               /\ \A j \in 1 .. Len(blocks) : Last(blocks[j]) < s

\* Every block starts at a "(symbol " line and ends at the first line from there
\* on at which the running paren count satisfies Closed.
BlocksCloseAt(content, blocks, Closed(_)) ==
    \A j \in 1 .. Len(blocks) :
        LET s == blocks[j][1]
            e == Last(blocks[j])
        IN  /\ StartsSymbol(content[s])
            /\ Closed(ParenSum(content, s, e))
            /\ \A k \in s .. e - 1 : ~Closed(ParenSum(content, s, k))

IsZero(depth) == depth = 0
IsZeroOrLess(depth) == depth <= 0

\* C10 (as stated): _iter_symbol_blocks_v6 returns, in file order, disjoint
\* contiguous runs of lines; each starts at a "(symbol " line met while no block
\* is open and ends at the first line, the opening line included, where the
\* running count of "(" minus ")" since the opening line is back to zero.
C10_AsStated ==
    pc = "return"
    => /\ BlocksAreRuns(call.content, ret)
       /\ BlocksCloseAt(call.content, ret, IsZero)
       /\ OpenBlockIsLast(call.content, ret, IsZero)

\* C10 (amended): _iter_symbol_blocks_v6 returns, in file order, disjoint
\* contiguous runs of lines; each starts at a "(symbol " line met while no block
\* is open and ends at the first line, the opening line included, where the
\* running count of "(" minus ")" since the opening line is zero or negative.
\* A block that closes on its opening line is a one-line block, "(symbol "
\* lines inside an open block start no block, a block that never closes is not
\* returned and takes every line after it, and no other line is in any block.
C10_BlocksCloseAtZeroOrBelow ==
    pc = "return"
    => /\ BlocksAreRuns(call.content, ret)
       /\ BlocksCloseAt(call.content, ret, IsZeroOrLess)
       /\ OpenBlockIsLast(call.content, ret, IsZeroOrLess)

\* C10 witness: a one-line block is followed by a block that holds a "(symbol "
\* line of its own and closes below zero.
C10_Witness ==
    /\ pc = "return"
    /\ call.content = <<Line("symbol", "", 0), Line("symbol", "", 1),
                        Line("symbol", "", 0), Line("other", "", -2)>>
    /\ ret = <<<<1>>, <<2, 3, 4>>>>

\* C1: the batch lookup reports a component as found, with the same footprint,
\* exactly when the single lookup does: every result of
\* _check_components_in_library is the response _check_component_in_library
\* gives for that ID on the same library, and the other way round.
C1_BatchAgreesWithSingle ==
    /\ (pc = "return" /\ call.fn = "_check_components_in_library")
       => \A id \in DOMAIN ret :
              ret[id] = check_component_in_library(call.content, call.suffix, id)
    /\ (pc = "return" /\ call.fn = "_check_component_in_library")
       => ret = check_components_in_library(call.content, call.suffix,
                                            <<call.lcsc_id>>)[call.lcsc_id]

\* C2: delete_component_in_symbol_lib removes the blocks whose own header names
\* component_name and whose own F6 field is component_id, from the opening
\* comment through the block's ENDDEF, and nothing else: the content written
\* back is the library of the other blocks, and the content is unchanged when
\* no block matches both.
C2_DeletesOnlyMatching ==
    pc = "return"
    => LET Kept(symbol) == ~(symbol.name = call.component_name /\ symbol.id = call.component_id)
       IN  ret = SymbolLib(SelectSeq(call.symbols, Kept))

----------------------------------------------------------------------------
(***************************************************************************)
(* Claims about the API server.                                            *)
(***************************************************************************)
\* The worker tasks whose loop runs or will run: created and not cancelled.
AliveWorkers == {w \in 1 .. Len(workers) : workers[w] \in {"ready", "get"}}

\* C3: single-flight execution: under every interleaving of enqueue_task,
\* start_worker and stop_worker at most one worker loop is alive at any time,
\* so that at most one conversion can be executing.
C3_SingleFlight == pc = "server" => Cardinality(AliveWorkers) <= 1

\* C17: enqueue_task accepts every payload whose LCSC ID starts with "C" and
\* that selects a target: it registers exactly one new task, appends its id at
\* the tail of pending and puts it on the queue; a payload with a malformed ID
\* or without a target is rejected and leaves tasks, pending and the queue as
\* they were.
C17_EnqueueAccepts ==
    [][\A payload \in Payloads :
          enqueue_task(payload)
          => IF PayloadValid(payload)
             THEN /\ http' = "202"
                  /\ Cardinality(tasks') = Cardinality(tasks) + 1
                  /\ \E task_id \in tasks' \ tasks :
                         /\ pending' = Append(pending, task_id)
                         /\ queue' = Append(queue, task_id)
             ELSE /\ http' \in {"400", "422"}
                  /\ UNCHANGED <<tasks, pending, queue>>]_vars

----------------------------------------------------------------------------
(***************************************************************************)
(* ConversionPipeline: run_conversion of service/conversion.py and main of *)
(* __main__.py.                                                            *)
(*                                                                         *)
(* A symbol (EeSymbol, as the importer hands it over) is a record: name is *)
(* info.name, the eight fields pins .. paths are the lengths of its lists  *)
(* of primitives, out is the text the symbol exporter returns for it ("",  *)
(* an empty output).  cad_data is [symbol, subparts]: the primary symbol   *)
(* and the symbols of cad_data["subparts"].  The library is the set of the *)
(* sanitized names id_already_in_symbol_lib finds in the symbol file.      *)
(* The importers, the exporters and the helpers are not part of the source *)
(* at hand: what they return is an input of the model.                     *)
(***************************************************************************)
MaxSubparts == 2    \* cad_data["subparts"] holds up to MaxSubparts subparts

PrimitiveFields ==
    {"pins", "rectangles", "circles", "arcs", "ellipses", "polylines", "polygons", "paths"}

\* _symbol_is_empty, conversion.py lines 76-88; symbol_is_empty, __main__.py lines 32-44.
symbol_is_empty(symbol) ==
    ~(\/ symbol.pins > 0 \/ symbol.rectangles > 0 \/ symbol.circles > 0
      \/ symbol.arcs > 0 \/ symbol.ellipses > 0 \/ symbol.polylines > 0
      \/ symbol.polygons > 0 \/ symbol.paths > 0)

\* sanitize_fields(info.name): the names of the model and their sanitized forms.
sanitize_fields(name) == IF name = "R 1" THEN "R_1" ELSE name

\* ExporterSymbolKicad(symbol, kicad_version).export(...): the text for the symbol.
export_symbol(symbol, kicad_version) == symbol.out

\* The symbol stage up to the overwrite test, conversion.py lines 217-238 and
\* __main__.py lines 275-298: the primary symbol, the symbols of the
\* additional units and whether the component is in the library.
SymbolPlan_all_subparts(cad_data, library) ==
    LET promote == cad_data.subparts # <<>> /\ symbol_is_empty(cad_data.symbol)
        primary_symbol == IF promote THEN Head(cad_data.subparts) ELSE cad_data.symbol
        sanitized_name == sanitize_fields(primary_symbol.name)
    IN  [primary_symbol |-> primary_symbol,
         sub_symbols |-> cad_data.subparts,
         sanitized_name |-> sanitized_name,
         existing |-> sanitized_name \in library]

SymbolPlan(cad_data, library) ==
    LET promote == cad_data.subparts # <<>> /\ symbol_is_empty(cad_data.symbol)
        primary_symbol == IF promote THEN Head(cad_data.subparts) ELSE cad_data.symbol
        sanitized_name == sanitize_fields(primary_symbol.name)
    IN  [primary_symbol |-> primary_symbol,
         sub_symbols |-> IF promote THEN Tail(cad_data.subparts) ELSE cad_data.subparts,
         sanitized_name |-> sanitized_name,
         existing |-> sanitized_name \in library]

\* exported_sub_symbols, conversion.py lines 244-258 and __main__.py lines 304-321.
ExportedSubSymbols_keep_same(plan, kicad_version) ==
    LET Kept(sub_symbol) == export_symbol(sub_symbol, kicad_version) # ""
        kept == SelectSeq(plan.sub_symbols, Kept)
    IN  [k \in 1 .. Len(kept) |-> export_symbol(kept[k], kicad_version)]

ExportedSubSymbols(plan, kicad_version) ==
    LET exported_symbol == export_symbol(plan.primary_symbol, kicad_version)
        Kept(sub_symbol) ==
            /\ export_symbol(sub_symbol, kicad_version) # ""
            /\ export_symbol(sub_symbol, kicad_version) # exported_symbol
        kept == SelectSeq(plan.sub_symbols, Kept)
    IN  [k \in 1 .. Len(kept) |-> export_symbol(kept[k], kicad_version)]

\* A call of a helper that writes the symbol library.
LibraryCall(op, component_name, content) ==
    [op |-> op, component_name |-> component_name, content |-> content]

\* The writes of the symbol stage, conversion.py lines 260-279 and __main__.py
\* lines 323-342: update or add, then the additional units for a v6 library.
SymbolWrites_always_add(plan, kicad_version) ==
    LET exported_symbol == export_symbol(plan.primary_symbol, kicad_version)
        exported_sub_symbols == ExportedSubSymbols(plan, kicad_version)
    IN  <<LibraryCall("add_component", plan.sanitized_name, <<exported_symbol>>)>>
        \o (IF exported_sub_symbols # <<>> /\ kicad_version = "v6"
            THEN <<LibraryCall("add_sub_components", plan.sanitized_name, exported_sub_symbols)>>
            ELSE <<>>)

SymbolWrites(plan, kicad_version) ==
    LET exported_symbol == export_symbol(plan.primary_symbol, kicad_version)
        exported_sub_symbols == ExportedSubSymbols(plan, kicad_version)
    IN  <<LibraryCall(IF plan.existing THEN "update_component" ELSE "add_component",
                      plan.sanitized_name, <<exported_symbol>>)>>
        \o (IF exported_sub_symbols # <<>> /\ kicad_version = "v6"
            THEN <<LibraryCall("add_sub_components", plan.sanitized_name, exported_sub_symbols)>>
            ELSE <<>>)

\* logging.warning("Multi-unit symbols are only supported ..."), conversion.py
\* lines 280-284 and __main__.py lines 343-347.
UnitsSkipped(plan, kicad_version) ==
    ExportedSubSymbols(plan, kicad_version) # <<>> /\ kicad_version # "v6"

\* The local variables of the symbol stage a run leaves behind.
NoSymbol == <<>>

SymbolUnits(plan) == <<plan.primary_symbol, plan.sub_symbols>>

(***************************************************************************)
(* run_conversion(request, progress_cb), conversion.py lines 151-388.      *)
(* request is [generate_symbol, generate_footprint, generate_model,        *)
(* overwrite, kicad_version]; progress_cb is TRUE when the caller supplied *)
(* a callback.  env is what the run meets outside itself: scaffold_ok (the *)
(* output directories can be made), fetch ("ok", "error", "empty"),        *)
(* cad_data, library, footprint_exists, model_formats (the files the 3D    *)
(* exporter produced) and fault, the stage in which code below the         *)
(* pipeline raises ("none" for a run without such a fault).                *)
(* A run is the record of what the call did: the callbacks it made, the    *)
(* calls of the library helpers, the fields of its ConversionResult and    *)
(* raised, the exception it ended with (None for a normal return).         *)
(***************************************************************************)
StartRun ==
    [raised |-> None, callbacks |-> <<>>, completed_steps |-> 0,
     library_calls |-> <<>>, symbol |-> NoSymbol, symbol_path |-> None,
     footprint_path |-> None, model_paths |-> {}, messages |-> <<>>]

Raise(run, exception) == [run EXCEPT !.raised = exception]

\* notify, conversion.py lines 157-162.
notify(run, progress_cb, stage, steps_done, total_steps) ==
    IF ~progress_cb THEN run
    ELSE LET percent == IF total_steps # 0 THEN (steps_done * 100) \div total_steps ELSE 0
         IN  [run EXCEPT !.callbacks = Append(@, <<stage, Max(0, Min(100, percent))>>)]

\* steps_total, conversion.py lines 164-170.
StepsTotal(request) ==
    1 + (IF request.generate_symbol THEN 1 ELSE 0)
      + (IF request.generate_footprint THEN 1 ELSE 0)
      + (IF request.generate_model THEN 1 ELSE 0)

\* conversion.py lines 172-204: the first callback, the scaffold and the fetch.
FetchStage(run, request, progress_cb, env) ==
    LET started == notify(run, progress_cb, "FETCHING", 0, StepsTotal(request))
    IN  IF ~env.scaffold_ok \/ env.fetch # "ok" THEN Raise(started, "ConversionError")
        ELSE notify([started EXCEPT !.completed_steps = 1], progress_cb,
                    "FETCHING", 1, StepsTotal(request))

\* conversion.py lines 210-293.
SymbolStage(run, request, progress_cb, env) ==
    IF run.raised # None \/ ~request.generate_symbol THEN run
    ELSE LET started == notify(run, progress_cb, "EXPORT_SYMBOL",
                               run.completed_steps, StepsTotal(request))
             plan == SymbolPlan(env.cad_data, env.library)
             planned == [started EXCEPT !.symbol = SymbolUnits(plan)]
         IN  IF env.fault = "symbol" THEN Raise(started, "Exception")
             ELSE IF plan.existing /\ ~request.overwrite THEN Raise(planned, "ConversionError")
             ELSE [notify([planned EXCEPT
                               !.library_calls = SymbolWrites(plan, request.kicad_version),
                               !.completed_steps = @ + 1],
                          progress_cb, "EXPORT_SYMBOL",
                          run.completed_steps + 1, StepsTotal(request))
                   EXCEPT !.symbol_path = "symbol_file"]

\* conversion.py lines 295-331.
FootprintStage(run, request, progress_cb, env) ==
    IF run.raised # None \/ ~request.generate_footprint THEN run
    ELSE LET started == notify(run, progress_cb, "EXPORT_FOOTPRINT",
                               run.completed_steps, StepsTotal(request))
         IN  IF env.fault = "footprint" THEN Raise(started, "Exception")
             ELSE IF env.footprint_exists /\ ~request.overwrite
                  THEN Raise(started, "ConversionError")
             ELSE [notify([started EXCEPT !.completed_steps = @ + 1],
                          progress_cb, "EXPORT_FOOTPRINT",
                          run.completed_steps + 1, StepsTotal(request))
                   EXCEPT !.footprint_path = "footprint_file"]

\* conversion.py lines 333-377.
ModelStage(run, request, progress_cb, env) ==
    IF run.raised # None \/ ~request.generate_model THEN run
    ELSE LET started == notify(run, progress_cb, "EXPORT_MODEL",
                               run.completed_steps, StepsTotal(request))
         IN  IF env.fault = "model" THEN Raise(started, "Exception")
             ELSE notify([started EXCEPT !.model_paths = env.model_formats,
                                         !.completed_steps = @ + 1],
                         progress_cb, "EXPORT_MODEL",
                         run.completed_steps + 1, StepsTotal(request))

\* conversion.py lines 379-388.
Finalise_always(run, request, progress_cb) ==
    notify(notify(run, progress_cb, "FINALISING",
                  run.completed_steps, StepsTotal(request)),
           progress_cb, "COMPLETED", StepsTotal(request), StepsTotal(request))

Finalise(run, request, progress_cb) ==
    IF run.raised # None THEN run
    ELSE notify(notify(run, progress_cb, "FINALISING",
                       run.completed_steps, StepsTotal(request)),
                progress_cb, "COMPLETED", StepsTotal(request), StepsTotal(request))

run_conversion(request, progress_cb, env) ==
    Finalise(
        ModelStage(
            FootprintStage(
                SymbolStage(
                    FetchStage(StartRun, request, progress_cb, env),
                    request, progress_cb, env),
                request, progress_cb, env),
            request, progress_cb, env),
        request, progress_cb)

(***************************************************************************)
(* main(argv), __main__.py lines 239-430, from the fetch on (the arguments *)
(* are parsed and valid).  arguments is [symbol, footprint, model (the     *)
(* "3d" flag), overwrite, kicad_version].  The run of main has exit_code   *)
(* (<<0>> or <<1>>, NoExit when an exception leaves main instead), raised, *)
(* the calls of the library helpers and the locals of the symbol stage.    *)
(***************************************************************************)
NoExit == <<>>

StartMain ==
    [exit_code |-> NoExit, raised |-> None, library_calls |-> <<>>, symbol |-> NoSymbol]

Exit(run, exit_code) == [run EXCEPT !.exit_code = <<exit_code>>]

Ended(run) == run.exit_code # NoExit \/ run.raised # None

\* __main__.py lines 273-353.
MainSymbolStage(run, arguments, env) ==
    IF Ended(run) \/ ~arguments.symbol THEN run
    ELSE LET plan == SymbolPlan(env.cad_data, env.library)
             planned == [run EXCEPT !.symbol = SymbolUnits(plan)]
         IN  IF env.fault = "symbol" THEN Raise(run, "Exception")
             ELSE IF ~arguments.overwrite /\ plan.existing THEN Exit(planned, 1)
             ELSE [planned EXCEPT
                       !.library_calls = SymbolWrites(plan, arguments.kicad_version)]

\* __main__.py lines 355-391.
MainFootprintStage(run, arguments, env) ==
    IF Ended(run) \/ ~arguments.footprint THEN run
    ELSE IF env.fault = "footprint" THEN Raise(run, "Exception")
    ELSE IF ~arguments.overwrite /\ env.footprint_exists THEN Exit(run, 1)
    ELSE run

\* __main__.py lines 393-430.
MainModelStage(run, arguments, env) ==
    IF Ended(run) \/ ~arguments.model THEN run
    ELSE IF env.fault = "model" THEN Raise(run, "Exception")
    ELSE run

\* __main__.py lines 264-271 and 433.
main(arguments, env) ==
    LET fetched == IF env.fetch = "error" THEN Raise(StartMain, "Exception")
                   ELSE IF env.fetch = "empty" THEN Exit(StartMain, 1)
                   ELSE StartMain
        done == MainModelStage(
                    MainFootprintStage(
                        MainSymbolStage(fetched, arguments, env),
                        arguments, env),
                    arguments, env)
    IN  IF Ended(done) THEN done ELSE Exit(done, 0)

(***************************************************************************)
(* Calls of the conversion pipeline.                                       *)
(***************************************************************************)
\* A symbol whose only primitives, if any, are in the list named by shape.
EeSymbol(name, shape, out) ==
    [name |-> name, out |-> out,
     pins |-> IF shape = "pins" THEN 1 ELSE 0,
     rectangles |-> IF shape = "rectangles" THEN 1 ELSE 0,
     circles |-> IF shape = "circles" THEN 1 ELSE 0,
     arcs |-> IF shape = "arcs" THEN 1 ELSE 0,
     ellipses |-> IF shape = "ellipses" THEN 1 ELSE 0,
     polylines |-> IF shape = "polylines" THEN 1 ELSE 0,
     polygons |-> IF shape = "polygons" THEN 1 ELSE 0,
     paths |-> IF shape = "paths" THEN 1 ELSE 0]

EeSymbols ==
    {EeSymbol("R 1", "none", ""), EeSymbol("R 1", "pins", "X"),
     EeSymbol("R 1", "paths", "X"), EeSymbol("U2", "pins", "X"),
     EeSymbol("U2", "rectangles", "Y"), EeSymbol("U2", "none", "")}

CadDatas(symbols) == [symbol : symbols, subparts : SeqsUpTo(symbols, MaxSubparts)]

SymbolLibraries == {{}, {"R_1"}, {"U2"}}

KicadVersions == {"v5", "v6"}

\* ConversionRequest.__post_init__, conversion.py lines 59-65: a target is selected.
ConversionRequests ==
    {request \in [generate_symbol : BOOLEAN, generate_footprint : BOOLEAN,
                  generate_model : BOOLEAN, overwrite : BOOLEAN,
                  kicad_version : KicadVersions] :
        request.generate_symbol \/ request.generate_footprint \/ request.generate_model}

\* valid_arguments, __main__.py lines 135-141: a target is selected.
MainArguments ==
    {arguments \in [symbol : BOOLEAN, footprint : BOOLEAN, model : BOOLEAN,
                    overwrite : BOOLEAN, kicad_version : KicadVersions] :
        arguments.symbol \/ arguments.footprint \/ arguments.model}

\* A run that meets no obstacle outside the symbol stage.
SymbolEnvs ==
    [scaffold_ok : {TRUE}, fetch : {"ok"}, cad_data : CadDatas(EeSymbols),
     library : SymbolLibraries, footprint_exists : {FALSE}, model_formats : {{}},
     fault : {"none"}]

\* Every obstacle, with a component of two units.
PipelineEnvs ==
    [scaffold_ok : BOOLEAN, fetch : {"ok", "error", "empty"},
     cad_data : {[symbol |-> EeSymbol("R 1", "pins", "X"),
                  subparts |-> <<EeSymbol("U2", "rectangles", "Y")>>]},
     library : {{}, {"R_1"}}, footprint_exists : BOOLEAN,
     model_formats : {{}, {"wrl", "step"}},
     fault : {"none", "symbol", "footprint", "model"}]

SymbolStageCalls ==
    [fn : {"run_conversion"},
     request : {request \in ConversionRequests :
                   request.generate_symbol /\ ~request.generate_footprint
                   /\ ~request.generate_model},
     progress_cb : {FALSE}, env : SymbolEnvs]
    \cup
    [fn : {"main"},
     arguments : {arguments \in MainArguments :
                     arguments.symbol /\ ~arguments.footprint /\ ~arguments.model},
     env : SymbolEnvs]

PipelineCalls ==
    [fn : {"run_conversion"}, request : ConversionRequests,
     progress_cb : BOOLEAN, env : PipelineEnvs]
    \cup
    [fn : {"main"}, arguments : MainArguments, env : PipelineEnvs]

InitSymbolStage == pc = "call" /\ call \in SymbolStageCalls /\ ret = None /\ ServerInit

InitPipeline == pc = "call" /\ call \in PipelineCalls /\ ret = None /\ ServerInit

CallRunConversion ==
    /\ pc = "call" /\ call.fn = "run_conversion"
    /\ ret' = run_conversion(call.request, call.progress_cb, call.env)
    /\ pc' = "return"
    /\ UNCHANGED <<call, serverVars>>

CallMain ==
    /\ pc = "call" /\ call.fn = "main"
    /\ ret' = main(call.arguments, call.env)
    /\ pc' = "return"
    /\ UNCHANGED <<call, serverVars>>

SpecSymbolStage == InitSymbolStage /\ [][CallRunConversion \/ CallMain]_vars

SpecPipeline == InitPipeline /\ [][CallRunConversion \/ CallMain]_vars

(***************************************************************************)
(* Calls of the pad loop of generate_kicad_footprint: one pad at a time.   *)
(***************************************************************************)
\* One vendor unit is 0.25 mm (fp_to_ki), ten units of the shape fitter.
PadPoints ==
    {<<>>, <<Num(0)>>, <<Num(0), Num(0)>>, <<Num(0), Num(0), Num(1)>>,
     <<Num(0), Blank, Num(0), Num(1)>>,
     <<Num(0), Num(0), Num(1), Num(0), Num(0), Num(1)>>,
     <<Num(0), Num(0), Num(1), Num(0), Num(1), Num(1), Num(0), Num(1)>>}

PadCenters == {<<0, 0>>, <<10, 10>>, <<50, 10>>}

EePads ==
    {[shape |-> shape, center_x |-> center[1], center_y |-> center[2],
      width |-> 100, height |-> 0, hole_radius |-> hole_radius,
      hole_length |-> hole_length, rotation |-> Num(270), points |-> points] :
        shape \in {"RECT", "POLYGON", "STAR"}, center \in PadCenters,
        hole_radius \in {-1, 0, 2}, hole_length \in {Blank, Num(0), Num(3)},
        points \in PadPoints}

PadCalls ==
    [fn : {"generate_kicad_footprint"}, ee_pad : EePads,
     bbox : {[x |-> 0, y |-> 0], [x |-> 5, y |-> -5]},
     KI_PAD_SIZE_MIN : {10 * half : half \in 1 .. MaxHalf}]

InitPads == pc = "call" /\ call \in PadCalls /\ ret = None /\ ServerInit

CallGenerateKicadFootprint ==
    /\ pc = "call" /\ call.fn = "generate_kicad_footprint"
    /\ ret' = TranslatePad(call.ee_pad, call.bbox, call.KI_PAD_SIZE_MIN)
    /\ pc' = "return"
    /\ UNCHANGED <<call, serverVars>>

SpecPads == InitPads /\ [][CallGenerateKicadFootprint]_vars

(***************************************************************************)
(* Calls of compute_arc with whole coordinates and radii.                  *)
(***************************************************************************)
MaxRadius == 2      \* compute_arc: radius_x, radius_y over -MaxRadius..MaxRadius

ArcPoints == {0, 1, 3} \X {0, 2}

InitArcDivisions ==
    /\ pc = "call"
    /\ call \in [fn : {"compute_arc"}, start : ArcPoints, end : ArcPoints,
                 radius_x : -MaxRadius .. MaxRadius, radius_y : -MaxRadius .. MaxRadius]
    /\ ret = None
    /\ ServerInit

CallComputeArcDivisions ==
    /\ pc = "call" /\ call.fn = "compute_arc"
    /\ ret' = compute_arc_outcome(call.start[1], call.start[2], call.radius_x,
                                  call.radius_y, call.end[1], call.end[2])
    /\ pc' = "return"
    /\ UNCHANGED <<call, serverVars>>

SpecArcDivisions == InitArcDivisions /\ [][CallComputeArcDivisions]_vars

(***************************************************************************)
(* Calls of set_appropriate_position_for_custom_shape on a pad and an      *)
(* outline, both in hundredths of a millimetre on the 0.05 mm lattice.     *)
(***************************************************************************)
OutlineCoords == {0, 10, 25}

Outlines == BothWays(Rects(OutlineCoords) \cup CornerTriangles(OutlineCoords))

KiPads ==
    {[type |-> "smd", shape |-> "custom", pos_x |-> pos[1], pos_y |-> pos[2],
      width |-> 10 * half, height |-> 10 * half, layers |-> "KI_PAD_LAYER",
      drill |-> NoDrill, orientation |-> Num(0), polygon |-> <<>>] :
        pos \in {0, 10, 50} \X {0, 10}, half \in 1 .. MaxHalf}

InitPosition ==
    /\ pc = "call"
    /\ call \in [fn : {"set_appropriate_position_for_custom_shape"},
                 ki_pad : KiPads, polygon : Outlines]
    /\ ret = None
    /\ ServerInit

\* The call leaves the pad it was given and what it logged.
CallSetAppropriatePosition ==
    /\ pc = "call" /\ call.fn = "set_appropriate_position_for_custom_shape"
    /\ LET placed == set_appropriate_position_for_custom_shape(
                         <<call.ki_pad.pos_x, call.ki_pad.pos_y>>, call.ki_pad.width,
                         call.polygon)
       IN  ret' = [ki_pad |-> [call.ki_pad EXCEPT !.pos_x = placed.pos[1],
                                                  !.pos_y = placed.pos[2]],
                   warned |-> placed.warned]
    /\ pc' = "return"
    /\ UNCHANGED <<call, serverVars>>

SpecPosition == InitPosition /\ [][CallSetAppropriatePosition]_vars

(***************************************************************************)
(* Calls of the 3D-model placement: one footprint with a model a call.     *)
(***************************************************************************)
ModelCenters == {Nothing, Some(<<0, 0, 0>>), Some(<<10, -20, 30>>), Some(<<10, 20>>)}

ModelSizes ==
    {Nothing, Some(<<20, 40, 10>>), Some(<<0, 40, 10>>), Some(<<20, 0, 10>>),
     Some(<<20, 40, 0>>), Some(<<0, 0, 0>>), Some(<<20, 40>>), Some(<<-30, 70, 20>>)}

Models3d ==
    [center : ModelCenters, size : ModelSizes,
     translation : {[x |-> 1270, y |-> -254, z |-> z] : z \in {0, 1234, -2540}},
     rotation : {<<0, 0, 0>>, <<0, 180, 90>>, <<270, 0, 360>>}]

FootprintBoxes ==
    {{}, {[x1 |-> 0, y1 |-> 0, x2 |-> 100, y2 |-> 50]},
     {[x1 |-> -30, y1 |-> 10, x2 |-> 45, y2 |-> 10], [x1 |-> 0, y1 |-> 0, x2 |-> 10, y2 |-> 75]}}

ModelFootprints ==
    [model_3d : Models3d, boxes : FootprintBoxes,
     bbox : {[x |-> 0, y |-> 0], [x |-> 5, y |-> -5]},
     info : {[fp_type |-> fp_type] : fp_type \in {"smd", "tht"}}]

InitModel3d == pc = "call" /\ call \in ModelFootprints /\ ret = None /\ ServerInit

CallPlace3dModel ==
    /\ pc = "call"
    /\ ret' = Place3dModel(call)
    /\ pc' = "return"
    /\ UNCHANGED <<call, serverVars>>

SpecModel3d == InitModel3d /\ [][CallPlace3dModel]_vars

(***************************************************************************)
(* Calls of the track and rectangle loops: one track or rectangle a call.  *)
(***************************************************************************)
MaxTrackPoints == 3     \* a track has up to MaxTrackPoints points

TrackCoords == {Num(0), Num(1), Num(4)}

TrackPoints ==
    UNION {[1 .. 2 * n -> TrackCoords] : n \in 0 .. MaxTrackPoints}
    \cup {<<Num(0)>>, <<Num(0), Num(1), Num(4)>>, <<Num(0), Blank, Num(1), Num(4)>>}

LineCalls ==
    [fn : {"tracks"}, points : TrackPoints, layer_id : {1, 12}, stroke_width : {0, 20},
     bbox : {[x |-> 0, y |-> 0], [x |-> 5, y |-> -5]}]
    \cup
    [fn : {"rectangles"}, x : {0, 30}, y : {0, -30}, width : {0, 10, -10},
     height : {0, 20}, layer_id : {2, 12}, stroke_width : {0, 20},
     bbox : {[x |-> 0, y |-> 0], [x |-> 5, y |-> -5]}]

InitLines == pc = "call" /\ call \in LineCalls /\ ret = None /\ ServerInit

CallTracks ==
    /\ pc = "call" /\ call.fn = "tracks"
    /\ ret' = TranslateTrack(call, call.bbox)
    /\ pc' = "return"
    /\ UNCHANGED <<call, serverVars>>

CallRectangles ==
    /\ pc = "call" /\ call.fn = "rectangles"
    /\ ret' = TranslateRectangle(call, call.bbox)
    /\ pc' = "return"
    /\ UNCHANGED <<call, serverVars>>

SpecLines == InitLines /\ [][CallTracks \/ CallRectangles]_vars

----------------------------------------------------------------------------
(***************************************************************************)
(* Claims about the flat-grammar reader.                                   *)
(***************************************************************************)
\* Every block starts at a "DEF " line and ends at the first line after it that
\* satisfies Ends; the "DEF " lines outside every block: the first of them, if
\* any, opened a block that no later line ended, and no block lies after it.
DefBlocksEndAt(content, blocks, Ends(_)) ==
    /\ \A j \in 1 .. Len(blocks) :
          LET s == blocks[j][1]
              e == Last(blocks[j])
          IN  /\ StartsDef(content[s])
              /\ e > s
              /\ Ends(content[e])
              /\ \A k \in s + 1 .. e - 1 : ~Ends(content[k])
    /\ LET outside == {i \in 1 .. Len(content) :
                          StartsDef(content[i]) /\ ~InSomeBlock(i, blocks)}
       IN  outside # {}
           => LET s == SetMin(outside)
              IN  /\ \A e \in s + 1 .. Len(content) : ~Ends(content[e])
                  /\ \A j \in 1 .. Len(blocks) : Last(blocks[j]) < s

ExactlyEndDef(line) == line.t = "ENDDEF"
TrimmedEndDef(line) == line.t \in {"ENDDEF", " ENDDEF "}

\* C11 (as stated): a block of _iter_symbol_blocks_v5 begins at a line starting
\* with "DEF " and ends at the first later line that is exactly "ENDDEF"; a
\* line that holds the token with blanks around it does not end the block.
C11_AsStated ==
    pc = "return"
    => /\ BlocksAreRuns(call.content, ret)
       /\ DefBlocksEndAt(call.content, ret, ExactlyEndDef)

\* C11 (amended): a block of _iter_symbol_blocks_v5 begins at a line starting
\* with "DEF " (untrimmed) while no block is open and ends at the first later
\* line that is "ENDDEF" once its leading and trailing blanks are removed: a
\* line that holds the token with blanks around it ends the block, a line that
\* holds it with other text does not.  The blocks are contiguous runs of the
\* file's lines, taken as they are, in file order.
C11_BlocksEndAtTrimmedEndDef ==
    pc = "return"
    => /\ BlocksAreRuns(call.content, ret)
       /\ DefBlocksEndAt(call.content, ret, TrimmedEndDef)

\* C11 witness: a block that passes a line "ENDDEF x" and an indented "DEF" line
\* is ended by an ENDDEF line with blanks around the token.
C11_Witness ==
    /\ pc = "return"
    /\ call.content = <<Line("DEF", "", 0), Line("ENDDEF x", "", 0),
                        Line(" DEF", "", 0), Line(" ENDDEF ", "", 0)>>
    /\ ret = <<<<1, 2, 3, 4>>>>

----------------------------------------------------------------------------
(***************************************************************************)
(* Claims about the symbol stage of the conversion pipeline.               *)
(***************************************************************************)
AllEmpty(symbol) == \A field \in PrimitiveFields : symbol[field] = 0

\* The call returned or raised after its symbol stage chose the units.
SymbolStageReached == pc = "return" /\ ret.symbol # NoSymbol

\* The call ended without an error.
Succeeded ==
    /\ pc = "return"
    /\ ret.raised = None
    /\ call.fn = "main" => ret.exit_code = <<0>>

\* The call ended with the error for a component that is already there.
FailedAlreadyExists ==
    /\ pc = "return"
    /\ IF call.fn = "main" THEN ret.exit_code = <<1>> /\ ret.raised = None
       ELSE ret.raised = "ConversionError"

Overwrite == IF call.fn = "main" THEN call.arguments.overwrite ELSE call.request.overwrite

KicadVersion ==
    IF call.fn = "main" THEN call.arguments.kicad_version ELSE call.request.kicad_version

\* C12: in run_conversion and in main, when the primary symbol has none of
\* pins, rectangles, circles, arcs, ellipses, polylines, polygons, paths and
\* there is a subpart, the first subpart becomes the primary symbol and the
\* remaining subparts, in order, are the additional units; when the primary
\* symbol is not empty, it stays the primary and every subpart, in order, is
\* an additional unit.
C12_SubpartPromotion ==
    SymbolStageReached
    => LET cad_data == call.env.cad_data
       IN  /\ AllEmpty(cad_data.symbol) /\ cad_data.subparts # <<>>
              => ret.symbol = <<Head(cad_data.subparts), Tail(cad_data.subparts)>>
           /\ ~AllEmpty(cad_data.symbol)
              => ret.symbol = <<cad_data.symbol, cad_data.subparts>>

\* C12 witness: the CLI promoted the first of two subparts of an empty primary
\* and translated the second as the only additional unit.
C12_Witness ==
    /\ pc = "return" /\ call.fn = "main"
    /\ AllEmpty(call.env.cad_data.symbol)
    /\ Len(call.env.cad_data.subparts) = 2
    /\ ret.symbol = <<call.env.cad_data.subparts[1], <<call.env.cad_data.subparts[2]>>>>
    /\ ret.exit_code = <<0>>

\* The texts handed to add_sub_components_in_symbol_lib_file, in call order.
RECURSIVE UnitsWritten(_)
UnitsWritten(library_calls) ==
    IF library_calls = <<>> THEN <<>>
    ELSE (IF Head(library_calls).op = "add_sub_components"
          THEN Head(library_calls).content ELSE <<>>)
         \o UnitsWritten(Tail(library_calls))

\* The outputs of the subparts that are non-empty and differ from primary_output.
RECURSIVE DistinctOutputs(_, _)
DistinctOutputs(subparts, primary_output) ==
    IF subparts = <<>> THEN <<>>
    ELSE (IF Head(subparts).out # "" /\ Head(subparts).out # primary_output
          THEN <<Head(subparts).out>> ELSE <<>>)
         \o DistinctOutputs(Tail(subparts), primary_output)

\* C13: when a symbol export for the v6 grammar succeeds, the additional units
\* written to the library are exactly the outputs of the subparts that are
\* non-empty and differ from the primary unit's output, in subpart order; for
\* the v5 grammar add_sub_components_in_symbol_lib_file is never called.
C13_AdditionalUnits ==
    pc = "return"
    => /\ Succeeded /\ KicadVersion = "v6"
          => UnitsWritten(ret.library_calls)
             = DistinctOutputs(call.env.cad_data.subparts, ret.symbol[1].out)
       /\ KicadVersion = "v5" => UnitsWritten(ret.library_calls) = <<>>

\* C13 witness: run_conversion wrote the second of two subparts as the only
\* additional unit, the first one having the primary unit's output.
C13_Witness ==
    /\ Succeeded /\ call.fn = "run_conversion" /\ KicadVersion = "v6"
    /\ ~AllEmpty(call.env.cad_data.symbol)
    /\ Len(call.env.cad_data.subparts) = 2
    /\ call.env.cad_data.subparts[1].out = call.env.cad_data.symbol.out
    /\ UnitsWritten(ret.library_calls) = <<call.env.cad_data.subparts[2].out>>

\* C14: when run_conversion returns after a non-fatal warning (additional
\* units skipped because the target is the v5 grammar), result.messages holds
\* an entry for it.
C14_MessagesRecorded ==
    /\ pc = "return" /\ call.fn = "run_conversion" /\ ret.raised = None
    /\ UnitsSkipped(SymbolPlan(call.env.cad_data, call.env.library), KicadVersion)
    => ret.messages # <<>>

NumberOf(library_calls, op) ==
    Cardinality({k \in 1 .. Len(library_calls) : library_calls[k].op = op})

\* The component the symbol stage exports is in the symbol library.
ComponentPresent == sanitize_fields(ret.symbol[1].name) \in call.env.library

\* C15: if the component is in the symbol library and overwrite is false, the
\* symbol stage fails (ConversionError in run_conversion, exit code 1 in main)
\* and no helper has touched the library; if it is present and overwrite is
\* true, there is exactly one update and no add; if it is absent, there is
\* exactly one add and no update.
C15_OverwriteProtocol ==
    SymbolStageReached
    => /\ ComponentPresent /\ ~Overwrite
          => FailedAlreadyExists /\ ret.library_calls = <<>>
       /\ ComponentPresent /\ Overwrite
          => /\ NumberOf(ret.library_calls, "update_component") = 1
             /\ NumberOf(ret.library_calls, "add_component") = 0
       /\ ~ComponentPresent
          => /\ NumberOf(ret.library_calls, "add_component") = 1
             /\ NumberOf(ret.library_calls, "update_component") = 0

\* C15 witness: run_conversion, asked to overwrite, updated a component that a
\* promoted subpart names and that was in the library.
C15_Witness ==
    /\ SymbolStageReached /\ call.fn = "run_conversion"
    /\ AllEmpty(call.env.cad_data.symbol) /\ call.env.cad_data.subparts # <<>>
    /\ ComponentPresent /\ Overwrite
    /\ NumberOf(ret.library_calls, "update_component") = 1

----------------------------------------------------------------------------
(***************************************************************************)
(* Claims about the progress callbacks of run_conversion.                  *)
(***************************************************************************)
Percent(callback) == callback[2]

\* C16: in every run of run_conversion, whatever artifacts are requested,
\* each progress callback carries a percent within 0..100 and the percent
\* never decreases from one callback to the next; a run with a callback that
\* returns normally ends with the callback (COMPLETED, 100), and a run that
\* raises makes no COMPLETED callback.
C16_Progress ==
    pc = "return" /\ call.fn = "run_conversion"
    => /\ \A k \in 1 .. Len(ret.callbacks) : Percent(ret.callbacks[k]) \in 0 .. 100
       /\ \A k \in 1 .. Len(ret.callbacks) - 1 :
              Percent(ret.callbacks[k]) <= Percent(ret.callbacks[k + 1])
       /\ ret.raised = None /\ call.progress_cb
          => ret.callbacks # <<>> /\ Last(ret.callbacks) = <<"COMPLETED", 100>>
       /\ ret.raised # None
          => \A k \in 1 .. Len(ret.callbacks) : ret.callbacks[k][1] # "COMPLETED"

\* C16 witness: a run for all three artifacts returned after ten callbacks
\* whose percents went through 0, 25, 50, 75 and 100.
C16_Witness ==
    /\ pc = "return" /\ call.fn = "run_conversion" /\ call.progress_cb
    /\ StepsTotal(call.request) = 4
    /\ ret.raised = None
    /\ Len(ret.callbacks) = 10
    /\ {Percent(ret.callbacks[k]) : k \in 1 .. 10} = {0, 25, 50, 75, 100}
    /\ ret.callbacks[10] = <<"COMPLETED", 100>>

----------------------------------------------------------------------------
(***************************************************************************)
(* Claims about the pads of generate_kicad_footprint.                      *)
(***************************************************************************)
IsCustom(ee_pad) == ee_pad.shape \notin {"ELLIPSE", "RECT", "OVAL"}

\* C18: generate_kicad_footprint does not raise on a custom pad whose point
\* list is empty or holds an odd number of coordinates: the pad is appended
\* to the output, with the "no points defined" warning for the empty list.
C18_CustomPadNeverRaises ==
    /\ pc = "return" /\ IsCustom(call.ee_pad)
    /\ Len(call.ee_pad.points) % 2 = 1 \/ call.ee_pad.points = <<>>
    => /\ ret.raised = None
       /\ Len(ret.pads) = 1
       /\ call.ee_pad.points = <<>> => ret.warnings = <<"no points defined">>

AtCenter(ki_pad) ==
    /\ ki_pad.pos_x = call.ee_pad.center_x - call.bbox.x
    /\ ki_pad.pos_y = call.ee_pad.center_y - call.bbox.y

\* The type and the drill of an emitted pad, as C19 states them.
TypeAndDrill(ki_pad) ==
    /\ call.ee_pad.hole_radius <= 0 <=> ki_pad.type = "smd" /\ ki_pad.drill = NoDrill
    /\ call.ee_pad.hole_radius > 0 <=> ki_pad.type = "thru_hole" /\ ki_pad.drill # NoDrill
    /\ call.ee_pad.hole_radius > 0 /\ call.ee_pad.hole_length \in {Blank, Num(0)}
       => ki_pad.drill = DrillRound(2 * call.ee_pad.hole_radius)
    /\ ki_pad.type = "smd" <=> ki_pad.drill = NoDrill

\* C19 (as stated): every pad generate_kicad_footprint emits is positioned at
\* the pad center minus the bounding-box origin; its type is "smd" with an
\* empty drill exactly when hole_radius <= 0 and "thru_hole" with a non-empty
\* drill exactly when hole_radius > 0.
C19_AsStated ==
    pc = "return" => \A k \in 1 .. Len(ret.pads) : AtCenter(ret.pads[k]) /\ TypeAndDrill(ret.pads[k])

\* The outline of a custom pad and its anchor circle, as the shape fitter sees them.
GridOutline ==
    LET point_list == [k \in 1 .. Len(call.ee_pad.points) |-> fp_to_ki(call.ee_pad.points[k])]
    IN  [k \in 1 .. Len(point_list) \div 2 |->
            <<ToGrid(point_list[2 * k - 1].v - call.bbox.x),
              ToGrid(point_list[2 * k].v - call.bbox.y)>>]

AnchorHalf == call.KI_PAD_SIZE_MIN \div 10

AnchorFitsAt(x, y) == is_circle_in_polygon(<<Z(x), Z(y)>>, AnchorHalf, GridOutline)

AnchorFitsAtCenter ==
    AnchorFitsAt(ToGrid(call.ee_pad.center_x - call.bbox.x),
                 ToGrid(call.ee_pad.center_y - call.bbox.y))

\* C19 (amended): every emitted pad has the type "smd" with an empty drill
\* exactly when hole_radius <= 0 and "thru_hole" with a non-empty drill exactly
\* when hole_radius > 0; a pad whose shape is not custom is positioned at the
\* pad center minus the bounding-box origin, and so is a custom pad whose
\* anchor circle fits into its outline there; any other custom pad is
\* positioned at a grid point of its outline's bounding box where the anchor
\* circle fits, or at the pad center minus the origin when it fits nowhere.
C19_PadPositionTypeDrill ==
    pc = "return"
    => \A k \in 1 .. Len(ret.pads) :
          LET ki_pad == ret.pads[k]
          IN  /\ TypeAndDrill(ki_pad)
              /\ ~IsCustom(call.ee_pad) => AtCenter(ki_pad)
              /\ IsCustom(call.ee_pad) /\ AnchorFitsAtCenter => AtCenter(ki_pad)
              /\ IsCustom(call.ee_pad) /\ ~AnchorFitsAtCenter
                 => \/ AnchorFitsAt(ToGrid(ki_pad.pos_x), ToGrid(ki_pad.pos_y))
                    \/ /\ AtCenter(ki_pad)
                       /\ LET b == get_bounds_of_polygon(GridOutline)
                          IN  \A ix \in 0 .. frange_count(b.min_x, b.max_x, Step) - 1,
                                 iy \in 0 .. frange_count(b.min_y, b.max_y, Step) - 1 :
                                 ~AnchorFitsAt(b.min_x + Step * ix, b.min_y + Step * iy)

\* C19 witness: a through-hole custom pad whose center lies outside its square
\* outline was moved to the first grid point next to the outline's corner.
C19_Witness ==
    /\ pc = "return" /\ call.ee_pad.shape = "POLYGON"
    /\ call.ee_pad.hole_radius > 0
    /\ Len(call.ee_pad.points) = 8
    /\ call.ee_pad.center_x = 50
    /\ call.bbox.x = 0 /\ call.KI_PAD_SIZE_MIN = 10
    /\ Len(ret.pads) = 1
    /\ ret.pads[1].pos_x = 5 /\ ret.pads[1].pos_y = 5
    /\ ret.pads[1].type = "thru_hole"

----------------------------------------------------------------------------
(***************************************************************************)
(* Claims about the divisions of compute_arc.                              *)
(***************************************************************************)
\* C20: compute_arc guards every division against a zero denominator: for
\* every input, radius_y = 0 with radius_x # 0 and start # end included, it
\* returns its triple and never fails with a division by zero.
C20_NoDivisionByZero == pc = "return" => ret = "returned"

----------------------------------------------------------------------------
(***************************************************************************)
(* Claims about the degenerate vectors of compute_arc.                     *)
(***************************************************************************)
ZeroVector(w) == w = <<0, 0>>

\* C21: whenever n = 0 in compute_arc, that is whenever the start or the end
\* vector relative to the center has zero length, the extent before the sweep
\* adjustment is 719 and the extent returned has the magnitude 359, for both
\* values of sweep_flag; no other pair of vectors takes the fallback.
C21_DegenerateFallback ==
    pc = "return"
    => /\ ZeroVector(call.u) \/ ZeroVector(call.v)
          => ret.raw_extent = 719 /\ Abs(ret.angle_extent) = 359
       /\ ~ZeroVector(call.u) /\ ~ZeroVector(call.v) => ret.raw_extent \in -180 .. 180

\* C21 witness: a zero end vector with sweep_flag false: 719 is adjusted to 359
\* and returned as -359.
C21_Witness ==
    /\ pc = "return" /\ call.u = <<1, 0>> /\ ZeroVector(call.v) /\ ~call.sweep_flag
    /\ ret.raw_extent = 719 /\ ret.adjusted = 359 /\ ret.angle_extent = -359

----------------------------------------------------------------------------
(***************************************************************************)
(* Claims about set_appropriate_position_for_custom_shape.                 *)
(***************************************************************************)
\* The outline and the anchor circle of the call, in units of the shape fitter.
CallOutline ==
    [k \in 1 .. Len(call.polygon) |-> <<ToGrid(call.polygon[k][1]), ToGrid(call.polygon[k][2])>>]

Contained(ki_pad) ==
    is_circle_in_polygon(<<Z(ToGrid(ki_pad.pos_x)), Z(ToGrid(ki_pad.pos_y))>>,
                         ki_pad.width \div 10, CallOutline)

SamePosition(a, b) == a.pos_x = b.pos_x /\ a.pos_y = b.pos_y

\* C22: set_appropriate_position_for_custom_shape changes nothing of the pad
\* but its position: a pad whose center satisfies is_circle_in_polygon is left
\* as it is; otherwise the position becomes the result of
\* find_circle_center_in_polygon, and when that is None the pad keeps its
\* position and a warning is logged.  Afterwards the pad center satisfies the
\* containment test or the position is the original one.
C22_PositionOnly ==
    pc = "return"
    => LET found == find_circle_center_in_polygon(CallOutline, call.ki_pad.width \div 10)
       IN  /\ \A field \in DOMAIN call.ki_pad \ {"pos_x", "pos_y"} :
                  ret.ki_pad[field] = call.ki_pad[field]
           /\ Contained(call.ki_pad) => ret.ki_pad = call.ki_pad /\ ~ret.warned
           /\ ~Contained(call.ki_pad) /\ found # NoCenter
              => /\ ToGrid(ret.ki_pad.pos_x) = found[1]
                 /\ ToGrid(ret.ki_pad.pos_y) = found[2]
                 /\ ~ret.warned
           /\ ~Contained(call.ki_pad) /\ found = NoCenter
              => ret.ki_pad = call.ki_pad /\ ret.warned
           /\ Contained(ret.ki_pad) \/ SamePosition(ret.ki_pad, call.ki_pad)

\* C22 witness: a pad whose center lay outside its square outline was moved to
\* the first grid point where its anchor circle is contained.
C22_Witness ==
    /\ pc = "return"
    /\ call.polygon = Rect(0, 0, 25, 25)
    /\ call.ki_pad.width = 10
    /\ call.ki_pad.pos_x = 50 /\ call.ki_pad.pos_y = 10
    /\ ~Contained(call.ki_pad)
    /\ ret.ki_pad.pos_x = 5 /\ ret.ki_pad.pos_y = 5
    /\ Contained(ret.ki_pad)

----------------------------------------------------------------------------
(***************************************************************************)
(* Claims about the line segments of tracks and rectangles.                *)
(***************************************************************************)
SegmentStart(line, k) == <<line.points_start_x[k], line.points_start_y[k]>>
SegmentEnd(line, k) == <<line.points_end_x[k], line.points_end_y[k]>>

SegmentCount(line, n) ==
    /\ Len(line.points_start_x) = n /\ Len(line.points_start_y) = n
    /\ Len(line.points_end_x) = n /\ Len(line.points_end_y) = n

\* Point k of the track of the call, converted and relative to the origin.
TrackPoint(k) ==
    <<fp_to_ki(call.points[2 * k - 1]).v - call.bbox.x,
      fp_to_ki(call.points[2 * k]).v - call.bbox.y>>

WellFormedTrack ==
    /\ call.fn = "tracks" /\ call.points # <<>> /\ Len(call.points) % 2 = 0
    /\ \A k \in 1 .. Len(call.points) : call.points[k].t = "num"

\* C23: a track with N >= 1 points (an even number of coordinates) yields
\* exactly N - 1 segments, segment k running from point k to point k + 1, each
\* relative to the bounding-box origin; a rectangle yields exactly 4 segments,
\* the end of each being the start of the next and the end of the fourth the
\* start of the first.
C23_ConnectedChain ==
    pc = "return"
    => /\ WellFormedTrack
          => /\ ret.raised = None /\ Len(ret.lines) = 1
             /\ LET n == Len(call.points) \div 2
                IN  /\ SegmentCount(ret.lines[1], n - 1)
                    /\ \A k \in 1 .. n - 1 :
                           /\ SegmentStart(ret.lines[1], k) = TrackPoint(k)
                           /\ SegmentEnd(ret.lines[1], k) = TrackPoint(k + 1)
       /\ call.fn = "rectangles"
          => /\ ret.raised = None /\ Len(ret.lines) = 1
             /\ SegmentCount(ret.lines[1], 4)
             /\ \A k \in 1 .. 4 :
                    SegmentEnd(ret.lines[1], k) = SegmentStart(ret.lines[1], (k % 4) + 1)
             /\ SegmentStart(ret.lines[1], 1) = <<call.x - call.bbox.x, call.y - call.bbox.y>>

\* C23 witness: a track of three points gave two segments that meet in its
\* second point.
C23_Witness ==
    /\ pc = "return" /\ WellFormedTrack /\ Len(call.points) = 6
    /\ TrackPoint(1) # TrackPoint(2) /\ TrackPoint(2) # TrackPoint(3)
    /\ SegmentCount(ret.lines[1], 2)
    /\ SegmentEnd(ret.lines[1], 1) = TrackPoint(2)
    /\ SegmentStart(ret.lines[1], 2) = TrackPoint(2)

----------------------------------------------------------------------------
(***************************************************************************)
(* Claims about the placement of the 3D model.                             *)
(***************************************************************************)
\* Center and size are both present, each with three components, and no
\* size component is zero.
CenterAndSizeUsable ==
    /\ call.model_3d.center # Nothing /\ call.model_3d.size # Nothing
    /\ Len(call.model_3d.center.v) = 3 /\ Len(call.model_3d.size.v) = 3
    /\ \A axis \in 1 .. 3 : call.model_3d.size.v[axis] # 0

\* C24: the placement is scale-fit if and only if the model's center and size
\* are both present, each with three components, and all three size
\* components are non-zero; otherwise it is the fallback, whose Z translation
\* is 0 unless the footprint type is "smd", when it is the negated rounded
\* vendor Z translation; no input divides by zero.
C24_PlacementChoice ==
    pc = "return"
    => /\ ret.algorithm \in {"scale_fit", "fallback"}
       /\ ret.algorithm = "scale_fit" <=> CenterAndSizeUsable
       /\ ret.algorithm = "fallback"
          => ret.z = IF call.info.fp_type = "smd"
                     THEN -RoundDiv(call.model_3d.translation.z, 10)
                     ELSE 0

\* C24 witness: a model whose size has a zero height was placed by the
\* fallback on a surface-mount footprint, at a non-zero Z.
C24_Witness ==
    /\ pc = "return"
    /\ call.model_3d.center # Nothing /\ call.model_3d.size # Nothing
    /\ Len(call.model_3d.size.v) = 3 /\ Len(call.model_3d.center.v) = 3
    /\ call.model_3d.size.v[3] = 0 /\ call.model_3d.size.v[1] # 0
    /\ call.info.fp_type = "smd"
    /\ ret.algorithm = "fallback" /\ ret.z = -123

----------------------------------------------------------------------------
(***************************************************************************)
(* Claims about a failed conversion.                                       *)
(***************************************************************************)
\* C26: if run_conversion raises ConversionError (for example because the
\* footprint already exists and overwrite is false while symbol and footprint
\* were both requested), the symbol library is as it was before the call: no
\* helper that writes the library has been called.
C26_FailureLeavesLibraries ==
    pc = "return" /\ call.fn = "run_conversion" /\ ret.raised = "ConversionError"
    => ret.library_calls = <<>>

----------------------------------------------------------------------------
(***************************************************************************)
(* Claims about the task flow of the API server.                           *)
(***************************************************************************)
\* The ids whose record has the status, in the order they were enqueued.
IdsWithStatus(recs, status) ==
    SelectSeq([id \in 1 .. Len(recs) |-> id], LAMBDA id : recs[id].status = status)

\* pending holds exactly the ids of the queued tasks, in enqueue order, the
\* queue holds the same records, and queue_position is the index in pending
\* and None for a task that is running or finished.
QueueMirrors ==
    /\ pending = IdsWithStatus(records, "queued")
    /\ queue = pending
    /\ \A task_id \in tasks :
           IF records[task_id].status = "queued"
           THEN /\ queue_position(task_id) # <<>>
                /\ pending[queue_position(task_id)[1]] = task_id
           ELSE queue_position(task_id) = <<>>

\* A task that leaves the queue was at the head of pending, is running, and
\* no task enqueued before it is still queued.
StartsInOrder ==
    \A task_id \in tasks :
        records[task_id].status = "queued" /\ records'[task_id].status # "queued"
        => /\ pending # <<>> /\ Head(pending) = task_id
           /\ pending' = Tail(pending)
           /\ records'[task_id].status = "running"
           /\ \A earlier \in 1 .. task_id - 1 : records[earlier].status # "queued"

Terminal == {"completed", "failed"}

TerminalEntries(log) ==
    Cardinality({k \in 1 .. Len(log) : log[k] \in {"COMPLETED", "FAILED"}})

StopWorkerReturns ==
    \/ \E k \in 1 .. Len(stops) : StopWorkerResume(k)
    \/ stop_worker /\ worker_task # NoTask /\ worker_task' = NoTask
    \/ \E k \in 1 .. Len(joins) : JoinResume(k) /\ workers[joins[k].worker] = "done"

\* The worker handles an exception of the runner in this step.
RunnerRaised ==
    /\ WorkerResult
    /\ Head(ready).outcome = "raised"
    /\ workers[Head(ready).worker] = "thread"

=============================================================================
